---------------------------- MODULE Spec2Model ----------------------------
(***************************************************************************)
(* A model of assemblyfire's structural-topology analysis:                 *)
(*   - utils.determine_bins and the right-closed digitization of its edges *)
(*   - the entropy statistic of analysis_src/assembly_topology.py          *)
(*   - ConnectivityMatrix (construction, lookup, submatrix, from_bluepy,   *)
(*     to_h5 and from_h5)                                                  *)
(*   - the operations of AssemblyTopology and the batch drivers            *)
(*   - chance levels and per-bin membership probabilities                  *)
(*   - utils._il_isin, sequential and on a thread pool                     *)
(*   - the random control populations                                      *)
(* Each part has its own specification (SpecBins, SpecEntropy, SpecSign,   *)
(* SpecConn, SpecTopo, SpecList, SpecBatch, SpecProb, SpecIsin, SpecH5,    *)
(* SpecCtrl, SpecBluepy); the variables of the other parts stay idle.      *)
(***************************************************************************)

EXTENDS Integers, Sequences, FiniteSets, TLC

VARIABLES
    \* ---- adaptive binning (utils.determine_bins and its callers) ----
    unique_ns,      \* sorted unique feature values (np.unique)
    counts,         \* count of samples per unique value
    min_samples,    \* the min_samples argument
    bin_edges,      \* returned bin edges
    bin_centers,    \* returned bin centers, held in halves (2 * center)
    bin_idx,        \* np.digitize(value, bin_edges, right=True) per unique value
    bpc,            \* "idle" | "input" | "binned" | "digitized"
    \* ---- ConnectivityMatrix (connectivity.py) ----
    m,              \* self._m: [dim, nz], a dim x dim matrix with nonzero set nz
    gids,           \* self._gids
    lookup,         \* self._lookup: pandas.Series [index, values]
    cpc,            \* "idle" | "new" | "built" | "queried"
    q_pre,          \* sub_gids of the last submatrix call
    q_has_post,     \* sub_gids_post is not None
    q_post,         \* sub_gids_post of the last submatrix call (<<>> when None)
    sub,            \* what the last submatrix call returned or raised
    \* ---- entropy statistic (analysis_src/assembly_topology.py) ----
    bin_sizes,      \* number of nodes of each bin (len(binned_gids_tmp[bin_center]))
    bin_members,    \* number of assembly members of each bin (idx.sum())
    bin_vals,       \* bin centers (vals)
    probs,          \* per-bin membership probabilities (floats)
    me,             \* prior (membership) entropy
    pe,             \* posterior entropy
    mi,             \* what the signed fraction of entropy explained came out as
    epc,            \* "idle" | "input" | "probs" | "entropies" | "done"
    \* ---- batch drivers (topology.py) ----
    b_fn,           \* "in_degree_assemblies" | "simplex_counts_assemblies"
    b_groups,       \* assembly_grp_dict: per seed, the gid lists of its assemblies
    b_post_id,      \* post_id (0 stands for None)
    b_seed,         \* position of the for loop over the seeds
    b_stmt,         \* statement of the loop body to run next
    b_main,         \* in_degrees / simplex_counts: seed -> (assembly idx -> value)
    b_ctrl,         \* in_d_control / s_c_control: seed -> (key -> (idx -> value))
    b_pc,           \* "idle" | "loop" | "returned" | "raised"
    \* ---- AssemblyTopology operations (topology.py) and the h5 file ----
    t_op,           \* the operation called last on the object ("none" before)
    t_has_pre,      \* its first id list (pre_gids / sub_gids) is not None
    t_kind,         \* the kind argument of degree
    t_res,          \* what the operation returned or raised
    h5,             \* the h5 file of the last to_h5 call:
                    \* <<prefix, group name>> -> stored datasets
    \* ---- membership probabilities of one assembly (assembly_topology.py) ----
    p_fn,           \* the analysis: "indegree" | "syn_nnd" | "sinks"
    p_gids,         \* the analysed node population (gids / the nnd table's index)
    p_vals,         \* the feature value of each node of the population
    p_asm,          \* assembly.gids
    p_min,          \* min_samples
    p_chance,       \* chance_levels[assembly_id]
    p_edges,        \* bin_edges as digitized
    p_centers,      \* bin_centers, in halves
    p_probs,        \* probs, one per bin center
    p_counts,       \* counts, one per bin center (the number of nodes of the bin)
    p_overall,      \* overall_p of _mi_implementation(counts, probs)
    p_pc,           \* "idle" | "input" | "chance" | "binned" | "probs" | "mi"
    \* ---- utils._il_isin ----
    i_whom,         \* whom: the array whose elements are tested
    i_where,        \* where: the values tested against
    i_parallel,     \* the parallel argument
    i_ncpu,         \* os.cpu_count()
    i_chunks,       \* np.array_split(whom, nproc)
    i_flt,          \* per chunk: np.isin's result, or pending while its job runs
    i_res,          \* what _il_isin returned or raised
    i_pc,           \* "idle" | "call" | "mapping" | "returned" | "raised"
    \* ---- round trip through the h5 file (connectivity.py) ----
    h_layout,       \* the sparse format of self._m: "csc" | "csr" | "coo"
    h_group,        \* the group name from_h5 is called with
    h_prefix,       \* the prefix of both calls
    h_saved,        \* what to_h5 returned or raised
    h_loaded,       \* what from_h5 returned or raised
    h_pc,           \* "idle" | "built" | "saved" | "loaded"
    \* ---- random control populations (topology.py, mtype_connectivity.py) ----
    c_fn,           \* the call that draws the control
    c_pop,          \* the population drawn from (pre_gids / conn_mat.gids)
    c_ref,          \* the reference assembly's gids
    c_size,         \* the number of ids asked for
    c_ctrl,         \* the control drawn, or the exception raised
    c_pc,           \* "idle" | "call" | "drawn"
    \* ---- ConnectivityMatrix.from_bluepy (connectivity.py) ----
    f_conn,         \* the circuit's connectome: pairs <<pre gid, post gid>>
    f_i,            \* position of the for loop over gids
    f_indices,      \* indices
    f_indptr,       \* indptr
    f_pc            \* "idle" | "loop" | "built" | "degree"

binVars == <<unique_ns, counts, min_samples, bin_edges, bin_centers, bin_idx, bpc>>

connVars == <<m, gids, lookup, cpc, q_pre, q_has_post, q_post, sub>>

entVars == <<bin_sizes, bin_members, bin_vals, probs, me, pe, mi, epc>>

batchVars == <<b_fn, b_groups, b_post_id, b_seed, b_stmt, b_main, b_ctrl, b_pc>>

topoVars == <<t_op, t_has_pre, t_kind, t_res, h5>>

probVars == <<p_fn, p_gids, p_vals, p_asm, p_min, p_chance, p_edges, p_centers,
              p_probs, p_counts, p_overall, p_pc>>

isinVars == <<i_whom, i_where, i_parallel, i_ncpu, i_chunks, i_flt, i_res, i_pc>>

h5Vars == <<h_layout, h_group, h_prefix, h_saved, h_loaded, h_pc>>

ctrlVars == <<c_fn, c_pop, c_ref, c_size, c_ctrl, c_pc>>

bluepyVars == <<f_conn, f_i, f_indices, f_indptr, f_pc>>

vars == <<binVars, connVars, entVars, batchVars, topoVars, probVars, isinVars,
          h5Vars, ctrlVars, bluepyVars>>

\* what each part leaves alone
notBinVars == <<connVars, entVars, batchVars, topoVars, probVars, isinVars,
    h5Vars, ctrlVars, bluepyVars>>
notConnVars == <<binVars, entVars, batchVars, topoVars, probVars, isinVars,
    h5Vars, ctrlVars, bluepyVars>>
notEntVars == <<binVars, connVars, batchVars, topoVars, probVars, isinVars,
    h5Vars, ctrlVars, bluepyVars>>
notBatchVars == <<binVars, entVars, topoVars, probVars, isinVars,
    h5Vars, ctrlVars, bluepyVars>>
notTopoVars == <<binVars, entVars, batchVars, probVars, isinVars,
    h5Vars, ctrlVars, bluepyVars>>
notProbVars == <<binVars, connVars, entVars, batchVars, topoVars, isinVars,
    h5Vars, ctrlVars, bluepyVars>>
notIsinVars == <<binVars, connVars, entVars, batchVars, topoVars, probVars,
    h5Vars, ctrlVars, bluepyVars>>
notH5Vars == <<binVars, entVars, batchVars, probVars, isinVars, ctrlVars, bluepyVars>>
notCtrlVars == <<binVars, connVars, entVars, batchVars, topoVars, probVars, isinVars,
    h5Vars, bluepyVars>>
notBluepyVars == <<binVars, entVars, batchVars, probVars, isinVars, h5Vars, ctrlVars>>

-----------------------------------------------------------------------------
(* Bounds of the model *)

\* largest feature value of a histogram (values are 0..MaxVal)
MaxVal == 4
\* largest count of one feature value
MaxCount == 3
\* largest min_samples
MaxMinSamples == 3
\* largest adjacency dimension and largest number of node ids
MaxN == 2
\* largest number of nonzero adjacency entries
MaxEdges == 1
\* largest length of a queried id list
MaxQuery == 2
\* largest number of bins of a probability curve
MaxBins == 3
\* largest number of nodes in one bin
MaxBinSize == 2
\* largest bin center
MaxCenter == 3
\* number of fractional bits of the fixed-point reals standing for float64
ScaleBits == 10
\* largest number of seeds of a batch
MaxSeeds == 2
\* largest number of assemblies of one seed
MaxAssemblies == 2
\* largest length of the array _il_isin tests
MaxWhom == 3
\* largest number of CPUs os.cpu_count() reports
MaxCpu == 3
\* largest node id of the populations controls are drawn from
MaxPop == 3
\* largest number of connections of the circuit from_bluepy reads
MaxSynEdges == 2
\* number of nodes and of edges of the graphs whose simplices are listed
MaxListN == 3
MaxListEdges == 3

-----------------------------------------------------------------------------
(* The idle values of each part, held while another part's specification runs *)

IdleBins ==
    /\ unique_ns = <<>> /\ counts = <<>> /\ min_samples = 0
    /\ bin_edges = <<>> /\ bin_centers = <<>> /\ bin_idx = <<>> /\ bpc = "idle"

NoResult == [kind |-> "none"]

IdleConn ==
    /\ m = [dim |-> 0, nz |-> {}] /\ gids = <<>>
    /\ lookup = [index |-> <<>>, values |-> <<>>]
    /\ cpc = "idle" /\ q_pre = <<>> /\ q_has_post = FALSE /\ q_post = <<>>
    /\ sub = NoResult

NoFloat == [k |-> "unset"]

IdleEnt ==
    /\ bin_sizes = <<>> /\ bin_members = <<>> /\ bin_vals = <<>>
    /\ probs = <<>> /\ me = NoFloat /\ pe = NoFloat /\ mi = NoFloat
    /\ epc = "idle"

IdleBatch ==
    /\ b_fn = "none" /\ b_groups = <<>> /\ b_post_id = 0 /\ b_seed = 0
    /\ b_stmt = "none" /\ b_main = <<>> /\ b_ctrl = <<>> /\ b_pc = "idle"

\* an empty h5 file
NoFile == <<>>

IdleTopo ==
    /\ t_op = "none" /\ t_has_pre = FALSE /\ t_kind = "none" /\ t_res = NoResult
    /\ h5 = NoFile

IdleProb ==
    /\ p_fn = "none" /\ p_gids = <<>> /\ p_vals = <<>> /\ p_asm = <<>>
    /\ p_min = 0 /\ p_chance = NoFloat /\ p_edges = <<>> /\ p_centers = <<>>
    /\ p_probs = <<>> /\ p_counts = <<>> /\ p_overall = NoFloat /\ p_pc = "idle"

IdleIsin ==
    /\ i_whom = <<>> /\ i_where = <<>> /\ i_parallel = FALSE /\ i_ncpu = 0
    /\ i_chunks = <<>> /\ i_flt = <<>> /\ i_res = NoResult /\ i_pc = "idle"

IdleH5 ==
    /\ h_layout = "none" /\ h_group = "none" /\ h_prefix = "none"
    /\ h_saved = NoResult /\ h_loaded = NoResult /\ h_pc = "idle"

IdleCtrl ==
    /\ c_fn = "none" /\ c_pop = <<>> /\ c_ref = <<>> /\ c_size = 0
    /\ c_ctrl = NoResult /\ c_pc = "idle"

IdleBluepy ==
    /\ f_conn = {} /\ f_i = 0 /\ f_indices = <<>> /\ f_indptr = <<>>
    /\ f_pc = "idle"

-----------------------------------------------------------------------------
(* Helpers on sequences *)

Range(s) == {s[i] : i \in 1..Len(s)}

\* s[::-1]
Reverse(s) == [i \in 1..Len(s) |-> s[Len(s) + 1 - i]]

RECURSIVE SumSeq(_)
SumSeq(s) == IF Len(s) = 0 THEN 0 ELSE s[1] + SumSeq(Tail(s))

RECURSIVE SortedSeqOf(_)
\* the ascending sequence of a finite set of integers (np.unique's order)
SortedSeqOf(S) ==
    IF S = {} THEN <<>>
    ELSE LET mn == CHOOSE x \in S : \A y \in S : x <= y
         IN <<mn>> \o SortedSeqOf(S \ {mn})

\* the sequences of k distinct elements of S
InjSeqs(S, k) == {q \in [1..k -> S] : \A i \in 1..k : \A j \in 1..k : i # j => q[i] # q[j]}

-----------------------------------------------------------------------------
(* utils.determine_bins *)

RECURSIVE ScanEdges(_, _, _, _, _, _)
\* the loop of determine_bins: i is enumerate's index over counts[::-1]
ScanEdges(uns, cnts, minS, i, cumsum, edges) ==
    IF i >= Len(cnts) THEN edges
    ELSE LET count == cnts[Len(cnts) - i]
             cs == cumsum + count
         IN IF cs > minS
            THEN ScanEdges(uns, cnts, minS, i + 1, 0,
                           Append(edges, uns[Len(uns) - i]))
            ELSE ScanEdges(uns, cnts, minS, i + 1, cs, edges)

\* bin_edges of determine_bins(unique_ns, counts, min_samples)
BinEdges(uns, cnts, minS) ==
    Reverse(ScanEdges(uns, cnts, minS, 0, 0, <<uns[Len(uns)]>>))

\* a variant without the special case of a bin of width 1
BinCentersMidpoint(edges) ==
    [i \in 1..(Len(edges) - 1) |-> edges[i] + edges[i + 1]]

\* bin_centers of determine_bins, in halves: a bin of width 1 gets its upper
\* edge, any other bin the mean of its two edges
BinCenters(edges) ==
    [i \in 1..(Len(edges) - 1) |->
        IF edges[i + 1] - edges[i] = 1
        THEN 2 * edges[i + 1]
        ELSE edges[i] + edges[i + 1]]

\* np.digitize(x, bins, right=True) for non-decreasing bins: the index i with
\* bins[i-1] < x <= bins[i], i.e. the number of edges strictly below x
Digitize(x, edges) == Cardinality({k \in 1..Len(edges) : edges[k] < x})

-----------------------------------------------------------------------------
(* Specification of the binning part *)

InitBins ==
    /\ IdleConn /\ IdleEnt /\ IdleBatch /\ IdleTopo /\ IdleProb
       /\ IdleIsin /\ IdleH5 /\ IdleCtrl /\ IdleBluepy
    /\ \E S \in (SUBSET (0..MaxVal)) \ {{}} :
         /\ unique_ns = SortedSeqOf(S)
         /\ counts \in [1..Cardinality(S) -> 1..MaxCount]
    /\ min_samples \in 1..MaxMinSamples
    /\ bin_edges = <<>> /\ bin_centers = <<>> /\ bin_idx = <<>>
    /\ bpc = "input"

\* bin_edges, bin_centers = utils.determine_bins(unique_ns, counts, min_samples)
DetermineBins ==
    /\ bpc = "input"
    /\ bin_edges' = BinEdges(unique_ns, counts, min_samples)
    /\ bin_centers' = BinCenters(bin_edges')
    /\ bpc' = "binned"
    /\ UNCHANGED <<unique_ns, counts, min_samples, bin_idx>>
    /\ UNCHANGED notBinVars

\* bin_idx = np.digitize(values, bin_edges, right=True)
DigitizeSamples ==
    /\ bpc = "binned"
    /\ bin_idx' = [k \in 1..Len(unique_ns) |-> Digitize(unique_ns[k], bin_edges)]
    /\ bpc' = "digitized"
    /\ UNCHANGED <<unique_ns, counts, min_samples, bin_edges, bin_centers>>
    /\ UNCHANGED notBinVars

NextBins == DetermineBins \/ DigitizeSamples

SpecBins == InitBins /\ [][NextBins]_vars

\* number of samples the callers put in bin j (bin_idx == j), j = 1..#centers
BinCount(j) ==
    SumSeq([k \in 1..Len(unique_ns) |-> IF bin_idx[k] = j THEN counts[k] ELSE 0])

NBins == Len(bin_edges) - 1

-----------------------------------------------------------------------------
(* Claims on determine_bins *)

\* C1: once the samples are digitized (right-closed) against the returned
\* edges, every bin except possibly the lowest one holds at least min_samples
\* samples.
C1_BinsHoldMinSamples ==
    bpc = "digitized" => \A j \in 2..NBins : BinCount(j) >= min_samples

\* C2: every input value falls in exactly one bin of the returned edges under
\* right-closed digitization: its bin index is one of 1..NBins, so no sample
\* is dropped.
C2_EveryValueInOneBin ==
    bpc = "digitized" => \A k \in 1..Len(unique_ns) : bin_idx[k] \in 1..NBins

\* C3: the returned bin edges are strictly increasing.
C3_EdgesStrictlyIncreasing ==
    bpc # "input" /\ bpc # "idle" =>
        \A i \in 1..(Len(bin_edges) - 1) : bin_edges[i] < bin_edges[i + 1]

\* C4: when the total sample count is at most min_samples, the result is one
\* bin (two edges, one center) that spans the whole range of input values.
C4_DegenerateOneBin ==
    (bpc = "binned" /\ SumSeq(counts) <= min_samples) =>
        /\ Len(bin_edges) = 2
        /\ Len(bin_centers) = 1
        /\ bin_edges[1] = unique_ns[1]
        /\ bin_edges[2] = unique_ns[Len(unique_ns)]

\* C26: determine_bins returns exactly one center per bin (number of centers
\* = number of edges - 1); the center of a bin is the midpoint of its two
\* edges, except that a bin whose edges differ by exactly 1 has its upper edge
\* as center (centers are held in halves)
C26_BinCenters ==
    bpc \in {"binned", "digitized"} =>
        /\ Len(bin_centers) = Len(bin_edges) - 1
        /\ \A i \in 1..(Len(bin_edges) - 1) :
              LET lo == bin_edges[i]
                  hi == bin_edges[i + 1]
              IN /\ (hi - lo = 1) => bin_centers[i] = 2 * hi
                 /\ (hi - lo # 1) => bin_centers[i] = lo + hi

\* a binning with a bin of width 1 and a wider bin
C26_Witness ==
    /\ bpc = "binned"
    /\ \E i \in 1..(Len(bin_edges) - 1) : bin_edges[i + 1] - bin_edges[i] = 1
    /\ \E i \in 1..(Len(bin_edges) - 1) : bin_edges[i + 1] - bin_edges[i] > 1

-----------------------------------------------------------------------------
(* ConnectivityMatrix *)

\* node ids
Ids == 1..MaxN

SeqsUpTo(S, n) == UNION {[1..k -> S] : k \in 0..n}

\* square boolean matrices of dimension d with at most MaxEdges nonzeros,
\* positions 0-based as in numpy
Matrices(d) ==
    {[dim |-> d, nz |-> E] :
        E \in {X \in SUBSET ((0..(d - 1)) \X (0..(d - 1))) :
                  Cardinality(X) <= MaxEdges}}

\* __make_lookup__: pandas.Series(np.arange(len(self._gids)), index=self._gids)
MakeLookup(g) == [index |-> g, values |-> [i \in 1..Len(g) |-> i - 1]]

RECURSIVE Flatten(_)
Flatten(ss) == IF Len(ss) = 0 THEN <<>> ELSE ss[1] \o Flatten(Tail(ss))

\* the values of series lk at label id, in index order
AtLabel(lk, id) ==
    LET hits == {i \in 1..Len(lk.index) : lk.index[i] = id}
        ord == SortedSeqOf(hits)
    IN [k \in 1..Len(ord) |-> lk.values[ord[k]]]

\* a variant that ignores labels missing from the index instead of raising
LookupSkipMissing(lk, ids) ==
    [ok |-> TRUE, pos |-> Flatten([k \in 1..Len(ids) |-> AtLabel(lk, ids[k])])]

\* self._lookup[ids]: label-based selection with a list of labels; a label
\* missing from the index raises KeyError
Lookup(lk, ids) ==
    IF \E k \in 1..Len(ids) : ids[k] \notin Range(lk.index)
    THEN [ok |-> FALSE, pos |-> <<>>]
    ELSE [ok |-> TRUE, pos |-> Flatten([k \in 1..Len(ids) |-> AtLabel(lk, ids[k])])]

\* mat[np.ix_(rows, cols)]; IndexError when a position is outside the matrix
IxSelect(mat, rows, cols) ==
    IF \E p \in Range(rows) \cup Range(cols) : p >= mat.dim
    THEN [kind |-> "IndexError"]
    ELSE [kind |-> "matrix", nrows |-> Len(rows), ncols |-> Len(cols),
          nz |-> {rc \in (0..(Len(rows) - 1)) \X (0..(Len(cols) - 1)) :
                     <<rows[rc[1] + 1], cols[rc[2] + 1]>> \in mat.nz}]

\* a variant of submatrix that selects the transposed index pairs
SubMatrixSwapped(mat, lk, pre, hasPost, post) ==
    LET r == Lookup(lk, pre)
        c == IF hasPost THEN Lookup(lk, post) ELSE r
    IN IF ~r.ok \/ ~c.ok THEN [kind |-> "KeyError"]
       ELSE IxSelect(mat, c.pos, r.pos)

\* ConnectivityMatrix.submatrix(sub_gids, sub_gids_post)
SubMatrix(mat, lk, pre, hasPost, post) ==
    IF hasPost
    THEN LET r == Lookup(lk, pre)
             c == Lookup(lk, post)
         IN IF ~r.ok \/ ~c.ok THEN [kind |-> "KeyError"]
            ELSE IxSelect(mat, r.pos, c.pos)
    ELSE LET idx == Lookup(lk, pre)
         IN IF ~idx.ok THEN [kind |-> "KeyError"]
            ELSE IxSelect(mat, idx.pos, idx.pos)

InitConn ==
    /\ IdleBins /\ IdleEnt /\ IdleBatch /\ IdleTopo /\ IdleProb
       /\ IdleIsin /\ IdleH5 /\ IdleCtrl /\ IdleBluepy
    /\ m = [dim |-> 0, nz |-> {}] /\ gids = <<>>
    /\ lookup = [index |-> <<>>, values |-> <<>>]
    /\ cpc = "new" /\ q_pre = <<>> /\ q_has_post = FALSE /\ q_post = <<>>
    /\ sub = NoResult

\* ConnectivityMatrix.__init__(adj_matrix, gids)
Construct ==
    /\ cpc = "new"
    /\ \E d \in 0..MaxN : \E adj \in Matrices(d) : \E g \in SeqsUpTo(Ids, MaxN) :
         /\ m' = adj
         /\ gids' = g
         /\ lookup' = MakeLookup(g)
    /\ cpc' = "built"
    /\ UNCHANGED <<q_pre, q_has_post, q_post, sub>>
    /\ UNCHANGED notConnVars

\* a call of submatrix on the constructed object
Submatrix ==
    /\ cpc = "built"
    /\ \E pre \in SeqsUpTo(Ids, MaxQuery) :
         \/ /\ q_pre' = pre /\ q_has_post' = FALSE /\ q_post' = <<>>
            /\ sub' = SubMatrix(m, lookup, pre, FALSE, <<>>)
         \/ \E post \in SeqsUpTo(Ids, MaxQuery) :
            /\ q_pre' = pre /\ q_has_post' = TRUE /\ q_post' = post
            /\ sub' = SubMatrix(m, lookup, pre, TRUE, post)
    /\ cpc' = "queried"
    /\ UNCHANGED <<m, gids, lookup>>
    /\ UNCHANGED notConnVars

\* the caller drops the returned matrix; the object is ready for the next call
Drop ==
    /\ cpc = "queried"
    /\ cpc' = "built"
    /\ q_pre' = <<>> /\ q_has_post' = FALSE /\ q_post' = <<>> /\ sub' = NoResult
    /\ UNCHANGED <<m, gids, lookup>>
    /\ UNCHANGED notConnVars

NextConn == Construct \/ Submatrix \/ Drop

SpecConn == InitConn /\ [][NextConn]_vars

-----------------------------------------------------------------------------
(* Claims on ConnectivityMatrix *)

\* the ids the last submatrix call asked for
QueriedIds == Range(q_pre) \cup (IF q_has_post THEN Range(q_post) ELSE {})

\* the column ids in effect: sub_gids_post, or sub_gids when it is None
EffPost == IF q_has_post THEN q_post ELSE q_pre

\* the positions (0-based) at which id stands in the node-id vector
Positions(id) == {p \in 0..(Len(gids) - 1) : gids[p + 1] = id}

\* the position of an id that stands at exactly one place
PositionOf(id) == CHOOSE p \in Positions(id) : TRUE

\* C8: constructing a ConnectivityMatrix from an adjacency matrix whose
\* dimension differs from the number of node ids fails with ShapeMismatch, so no
\* constructed object has a matrix and an id vector of different sizes.
C8_ShapeMismatchRejected ==
    cpc \in {"built", "queried"} => m.dim = Len(gids)

\* C9: submatrix fails with an unknown-id error whenever any id of either
\* requested subset is not in the node-id lookup, and returns no matrix then.
C9_UnknownIdFails ==
    (cpc = "queried" /\ \E id \in QueriedIds : id \notin Range(lookup.index))
        => sub.kind = "KeyError"

C9_Witness ==
    /\ cpc = "queried" /\ q_has_post
    /\ \A id \in Range(q_pre) : id \in Range(lookup.index)
    /\ \E id \in Range(q_post) : id \notin Range(lookup.index)
    /\ Len(gids) > 0
    /\ sub.kind = "KeyError"

\* C10: for lists of known ids (each standing at one position of the id vector,
\* inside the matrix), submatrix(pre, post) is the |pre| x |post| matrix whose
\* entry (i, j) is the adjacency entry at (position of pre[i], position of
\* post[j]); with post omitted the columns are those of pre as well.
C10_SubmatrixEntries ==
    (/\ cpc = "queried"
     /\ \A id \in QueriedIds :
            Cardinality(Positions(id)) = 1 /\ PositionOf(id) < m.dim)
        =>
        /\ sub.kind = "matrix"
        /\ sub.nrows = Len(q_pre)
        /\ sub.ncols = Len(EffPost)
        /\ \A i \in 1..Len(q_pre) : \A j \in 1..Len(EffPost) :
              (<<i - 1, j - 1>> \in sub.nz)
                  <=> (<<PositionOf(q_pre[i]), PositionOf(EffPost[j])>> \in m.nz)
        /\ sub.nz \subseteq (0..(Len(q_pre) - 1)) \X (0..(Len(EffPost) - 1))

\* a 2 x 1 submatrix with a nonzero entry, rows and columns of different ids
C10_Witness ==
    /\ cpc = "queried" /\ q_has_post
    /\ Len(q_pre) = 2 /\ Len(q_post) = 1 /\ q_pre[1] # q_pre[2]
    /\ \A id \in QueriedIds :
            Cardinality(Positions(id)) = 1 /\ PositionOf(id) < m.dim
    /\ sub.kind = "matrix" /\ sub.nz = {<<1, 0>>}

\* C25: in every constructed ConnectivityMatrix the node-id vector has no
\* duplicate ids and the lookup is a bijection from ids to positions 0..N-1,
\* so that looking up a single id always yields exactly one position
C25_LookupBijective ==
    cpc \in {"built", "queried"} =>
        /\ \A i \in 1..Len(gids) : \A j \in 1..Len(gids) :
               i # j => gids[i] # gids[j]
        /\ \A id \in Range(gids) : Len(AtLabel(lookup, id)) = 1
        /\ {AtLabel(lookup, id)[1] : id \in Range(gids)} = 0..(Len(gids) - 1)

-----------------------------------------------------------------------------
(* float64 arithmetic: NaN, the infinities, and finite values in fixed point *)
(* (value * Scale); 0, 1 and 0.5 and their logarithms are exact             *)

Scale == 2 ^ ScaleBits

FNan == [k |-> "nan"]
FInf(sgn) == [k |-> "inf", s |-> sgn]
Fin(v) == [k |-> "fin", v |-> v]
IntF(n) == Fin(n * Scale)
FOne == IntF(1)

IsNan(x) == x.k = "nan"
IsInf(x) == x.k = "inf"
IsFin(x) == x.k = "fin"

Abs(i) == IF i < 0 THEN -i ELSE i
Sgn(i) == IF i < 0 THEN -1 ELSE IF i > 0 THEN 1 ELSE 0
\* the sign of a float that is not NaN
FSgn(x) == IF IsInf(x) THEN x.s ELSE Sgn(x.v)

FNeg(x) ==
    IF IsNan(x) THEN FNan
    ELSE IF IsInf(x) THEN FInf(-x.s)
    ELSE Fin(-x.v)

FAdd(a, b) ==
    IF IsNan(a) \/ IsNan(b) THEN FNan
    ELSE IF IsInf(a) /\ IsInf(b) THEN (IF a.s = b.s THEN a ELSE FNan)
    ELSE IF IsInf(a) THEN a
    ELSE IF IsInf(b) THEN b
    ELSE Fin(a.v + b.v)

FSub(a, b) == FAdd(a, FNeg(b))

FMul(a, b) ==
    IF IsNan(a) \/ IsNan(b) THEN FNan
    ELSE IF IsInf(a) \/ IsInf(b)
         THEN (IF FSgn(a) = 0 \/ FSgn(b) = 0 THEN FNan    \* inf * 0
               ELSE FInf(FSgn(a) * FSgn(b)))
    ELSE Fin(Sgn(a.v) * Sgn(b.v) * ((Abs(a.v) * Abs(b.v)) \div Scale))

FDiv(a, b) ==
    IF IsNan(a) \/ IsNan(b) THEN FNan
    ELSE IF IsInf(a) THEN (IF IsInf(b) THEN FNan
                           ELSE FInf(a.s * (IF b.v < 0 THEN -1 ELSE 1)))
    ELSE IF IsInf(b) THEN Fin(0)
    ELSE IF b.v = 0 THEN (IF a.v = 0 THEN FNan ELSE FInf(Sgn(a.v)))   \* x / 0
    ELSE Fin(Sgn(a.v) * Sgn(b.v) * ((Abs(a.v) * Scale) \div Abs(b.v)))

RECURSIVE Log2Exp(_)
\* floor(log2(v / Scale)) for v > 0
Log2Exp(v) ==
    IF v >= 2 * Scale THEN 1 + Log2Exp(v \div 2)
    ELSE IF v < Scale THEN Log2Exp(2 * v) - 1
    ELSE 0

RECURSIVE Log2Mant(_)
\* v / 2^Log2Exp(v), in [Scale, 2 * Scale)
Log2Mant(v) ==
    IF v >= 2 * Scale THEN Log2Mant(v \div 2)
    ELSE IF v < Scale THEN Log2Mant(2 * v)
    ELSE v

RECURSIVE Log2Frac(_, _, _)
\* the fractional bits of log2(y / Scale), y in [Scale, 2 * Scale), by squaring
Log2Frac(y, bit, acc) ==
    IF bit > ScaleBits THEN acc
    ELSE LET y2 == (y * y) \div Scale
         IN IF y2 >= 2 * Scale
            THEN Log2Frac(y2 \div 2, bit + 1, acc + Scale \div (2 ^ bit))
            ELSE Log2Frac(y2, bit + 1, acc)

\* np.log2: log2(0) = -inf, log2 of a negative number is NaN
FLog2(x) ==
    IF IsNan(x) THEN FNan
    ELSE IF IsInf(x) THEN (IF x.s > 0 THEN x ELSE FNan)
    ELSE IF x.v < 0 THEN FNan
    ELSE IF x.v = 0 THEN FInf(-1)
    ELSE Fin(Log2Exp(x.v) * Scale + Log2Frac(Log2Mant(x.v), 1, 0))

RECURSIVE FSum(_)
\* ndarray.sum()
FSum(xs) == IF Len(xs) = 0 THEN Fin(0) ELSE FAdd(xs[1], FSum(Tail(xs)))

\* np.nansum of two stacked terms: NaN counts as zero
NanSum2(a, b) ==
    FAdd(IF IsNan(a) THEN Fin(0) ELSE a, IF IsNan(b) THEN Fin(0) ELSE b)

-----------------------------------------------------------------------------
(* _mi_implementation, _sign_of_correlation *)

\* entropy(p): -np.log2(p) * p - np.log2(1 - p) * (1 - p)
Entropy(p) ==
    FSub(FMul(FNeg(FLog2(p)), p),
         FMul(FLog2(FSub(FOne, p)), FSub(FOne, p)))

\* a variant of entropy_vec that adds the two terms without np.nansum
EntropyVecPlainSum(p) ==
    FAdd(FMul(FNeg(FLog2(p)), p),
         FMul(FNeg(FLog2(FSub(FOne, p))), FSub(FOne, p)))

\* entropy_vec(p_vec), one element: np.nansum over the two stacked terms
EntropyVec(p) ==
    NanSum2(FMul(FNeg(FLog2(p)), p),
            FMul(FNeg(FLog2(FSub(FOne, p))), FSub(FOne, p)))

\* overall_p = (degree_counts * degree_p).sum() / degree_counts.sum()
OverallP(cnts, ps) ==
    FDiv(FSum([i \in 1..Len(cnts) |-> FMul(IntF(cnts[i]), ps[i])]),
         IntF(SumSeq(cnts)))

\* membership_entropy = entropy(overall_p)
MembershipEntropy(cnts, ps) == Entropy(OverallP(cnts, ps))

\* a variant of the posterior entropy that is not divided by the population
PosteriorEntropyUndivided(cnts, ps) ==
    FSum([i \in 1..Len(cnts) |-> FMul(EntropyVec(ps[i]), IntF(cnts[i]))])

\* posterior_entropy = (entropy_vec(degree_p) * degree_counts).sum() / degree_counts.sum()
PosteriorEntropy(cnts, ps) ==
    FDiv(FSum([i \in 1..Len(cnts) |-> FMul(EntropyVec(ps[i]), IntF(cnts[i]))]),
         IntF(SumSeq(cnts)))

\* np.argsort(degree_vals): positions (1-based) in ascending order of value
ArgSort(xs) ==
    CHOOSE idx \in InjSeqs(1..Len(xs), Len(xs)) :
        \A i \in 1..(Len(xs) - 1) :
            \/ xs[idx[i]] < xs[idx[i + 1]]
            \/ (xs[idx[i]] = xs[idx[i + 1]] /\ idx[i] < idx[i + 1])

\* a[idx]
Take(a, idx) == [i \in 1..Len(idx) |-> a[idx[i]]]

\* np.sign(np.polyfit(x, y, 1)[0]): the sign of the least-squares slope,
\* n * sum(x*y) - sum(x) * sum(y) over a positive denominator; when the x are
\* all one value (x > 0) the fit is the minimum-norm one, whose slope has the
\* sign of sum(y)
SlopeSign(xs, ps) ==
    IF \E i \in 1..Len(ps) : ~IsFin(ps[i]) THEN FNan
    ELSE LET n == Len(xs)
             sxy == SumSeq([i \in 1..n |-> xs[i] * ps[i].v])
             sx == SumSeq(xs)
             sxx == SumSeq([i \in 1..n |-> xs[i] * xs[i]])
             sy == SumSeq([i \in 1..n |-> ps[i].v])
         IN IF n * sxx - sx * sx = 0 THEN IntF(Sgn(sy))
            ELSE IntF(Sgn(n * sxy - sx * sy))

\* a variant that sorts the values but leaves the probabilities as passed
SignOfCorrelationValsOnly(xs, ps) == SlopeSign(Take(xs, ArgSort(xs)), ps)

\* _sign_of_correlation(degree_vals, degree_p)
SignOfCorrelation(xs, ps) ==
    LET idx == ArgSort(xs)
    IN SlopeSign(Take(xs, idx), Take(ps, idx))

-----------------------------------------------------------------------------
(* Specification of the entropy part: one (pre_assembly, assembly) pair of  *)
(* frac_entropy_explained_by_indegree                                       *)

InitEnt ==
    /\ IdleBins /\ IdleConn /\ IdleBatch /\ IdleTopo /\ IdleProb
       /\ IdleIsin /\ IdleH5 /\ IdleCtrl /\ IdleBluepy
    /\ \E n \in 1..MaxBins :
         /\ bin_sizes \in [1..n -> 1..MaxBinSize]
         /\ bin_members \in [1..n -> 0..MaxBinSize]
         /\ \A i \in 1..n : bin_members[i] <= bin_sizes[i]
         /\ \E S \in SUBSET (1..MaxCenter) :
              Cardinality(S) = n /\ bin_vals = SortedSeqOf(S)
    /\ probs = <<>> /\ me = NoFloat /\ pe = NoFloat /\ mi = NoFloat
    /\ epc = "input"

\* probs.append(idx.sum() / len(idx)) for every bin center
ComputeProbs ==
    /\ epc = "input"
    /\ probs' = [i \in 1..Len(bin_sizes) |->
                    FDiv(IntF(bin_members[i]), IntF(bin_sizes[i]))]
    /\ epc' = "probs"
    /\ UNCHANGED <<bin_sizes, bin_members, bin_vals, me, pe, mi>>
    /\ UNCHANGED notEntVars

\* me, pe = _mi_implementation(counts, probs)
MiImplementation ==
    /\ epc = "probs"
    /\ me' = MembershipEntropy(bin_sizes, probs)
    /\ pe' = PosteriorEntropy(bin_sizes, probs)
    /\ epc' = "entropies"
    /\ UNCHANGED <<bin_sizes, bin_members, bin_vals, probs, mi>>
    /\ UNCHANGED notEntVars

\* assembly_mi[pre_assembly][assembly_id] =
\*     _sign_of_correlation(vals, probs) * (1.0 - pe / me)
FracEntropyExplained ==
    /\ epc = "entropies"
    /\ mi' = [kind |-> "value",
              v |-> FMul(SignOfCorrelation(bin_vals, probs),
                         FSub(FOne, FDiv(pe, me)))]
    /\ epc' = "done"
    /\ UNCHANGED <<bin_sizes, bin_members, bin_vals, probs, me, pe>>
    /\ UNCHANGED notEntVars

NextEnt == ComputeProbs \/ MiImplementation \/ FracEntropyExplained

SpecEntropy == InitEnt /\ [][NextEnt]_vars

-----------------------------------------------------------------------------
(* Specification of _sign_of_correlation on its own: the (value,           *)
(* probability) pairs of a curve, passed in any order                       *)

InitSign ==
    /\ IdleBins /\ IdleConn /\ IdleBatch /\ IdleTopo /\ IdleProb
       /\ IdleIsin /\ IdleH5 /\ IdleCtrl /\ IdleBluepy
    /\ \E n \in 1..MaxBins :
         /\ bin_sizes \in [1..n -> 1..MaxBinSize]
         /\ bin_members \in [1..n -> 0..MaxBinSize]
         /\ \A i \in 1..n : bin_members[i] <= bin_sizes[i]
         /\ bin_vals \in InjSeqs(1..MaxCenter, n)
    /\ probs = [i \in 1..Len(bin_sizes) |->
                   FDiv(IntF(bin_members[i]), IntF(bin_sizes[i]))]
    /\ me = NoFloat /\ pe = NoFloat /\ mi = NoFloat
    /\ epc = "sign_input"

\* _sign_of_correlation(vals, probs)
SignCall ==
    /\ epc = "sign_input"
    /\ mi' = [kind |-> "sign", v |-> SignOfCorrelation(bin_vals, probs)]
    /\ epc' = "sign_done"
    /\ UNCHANGED <<bin_sizes, bin_members, bin_vals, probs, me, pe>>
    /\ UNCHANGED notEntVars

NextSign == SignCall

SpecSign == InitSign /\ [][NextSign]_vars

-----------------------------------------------------------------------------
(* Claims on the entropy statistic *)

\* the overall membership probability is 0 or 1: no node of the bins, or every
\* node, is a member
PriorDegenerate ==
    SumSeq(bin_members) = 0 \/ SumSeq(bin_members) = SumSeq(bin_sizes)

\* C5: when the prior membership entropy is exactly 0 (overall membership
\* probability 0 or 1), the fraction-of-entropy-explained computation signals
\* DegenerateEntropy and emits no numeric value.
C5_DegenerateEntropySignalled ==
    (epc = "done" /\ PriorDegenerate) => mi.kind = "DegenerateEntropy"

\* C6: the binary entropy treats 0*log2(0) as 0: the prior entropy returned by
\* _mi_implementation is 0 when the overall membership probability is 0 or 1
\* and 1 bit when it is 0.5, and every per-bin term of the posterior with
\* probability 0 or 1 is 0.
C6_EntropyConvention ==
    epc \in {"entropies", "done"} =>
        /\ PriorDegenerate => me = Fin(0)
        /\ OverallP(bin_sizes, probs) = Fin(Scale \div 2) => me = FOne
        /\ \A i \in 1..Len(probs) :
              probs[i] \in {Fin(0), FOne} => EntropyVec(probs[i]) = Fin(0)

\* the parts of C6 the code keeps: 1 bit at 0.5, and 0 for every per-bin term
\* at probability 0 or 1
C6_HalfAndPerBin ==
    epc \in {"entropies", "done"} =>
        /\ OverallP(bin_sizes, probs) = Fin(Scale \div 2) => me = FOne
        /\ \A i \in 1..Len(probs) :
              probs[i] \in {Fin(0), FOne} => EntropyVec(probs[i]) = Fin(0)

\* the curve rises (dir = 1) or falls (dir = -1) with the bin center: of two
\* bins the one of larger center never has the smaller (larger) probability,
\* and the probabilities are not all one value
Monotone(dir) ==
    /\ \A i \in 1..Len(probs) : IsFin(probs[i])
    /\ \A i \in 1..Len(probs) : \A j \in 1..Len(probs) :
          bin_vals[i] < bin_vals[j] => dir * probs[i].v <= dir * probs[j].v
    /\ \E i \in 1..Len(probs) : \E j \in 1..Len(probs) : probs[i] # probs[j]

\* C14: _sign_of_correlation returns +1 for every probability curve that is
\* monotonically increasing in the bin center and -1 for every curve that is
\* monotonically decreasing, in whatever order the pairs are passed.
C14_SignOfMonotoneCurve ==
    epc = "sign_done" =>
        /\ Monotone(1) => mi.v = IntF(1)
        /\ Monotone(-1) => mi.v = IntF(-1)

\* an increasing curve of three bins passed out of order
C14_Witness ==
    /\ epc = "sign_done" /\ Monotone(1)
    /\ bin_vals = <<3, 1, 2>>
    /\ mi.v = IntF(1)

\* every bin holds members only or non-members only, and there is a bin of
\* each sort
PerfectSeparation ==
    /\ \A i \in 1..Len(probs) : probs[i] \in {Fin(0), FOne}
    /\ \E i \in 1..Len(probs) : probs[i] = Fin(0)
    /\ \E i \in 1..Len(probs) : probs[i] = FOne

\* the sign of the trend of probability against bin center: of the sum, over
\* the pairs of bins, of (difference of centers) * (difference of probabilities)
TrendSign ==
    Sgn(SumSeq([i \in 1..Len(probs) |->
            SumSeq([j \in 1..Len(probs) |->
                IF i < j
                THEN (bin_vals[j] - bin_vals[i]) * (probs[j].v - probs[i].v)
                ELSE 0])]))

\* C17 as stated: for a feature that perfectly separates members from
\* non-members the signed fraction of entropy explained is 1, whichever
\* feature values the member-only bins occupy.
C17_PerfectSeparationIsOne ==
    (epc = "done" /\ PerfectSeparation) => mi.v = FOne

\* C17, amended: for a feature that perfectly separates members from
\* non-members the posterior entropy is 0 and the fraction of entropy explained
\* 1 - posterior/prior is 1; the signed value is +1 when probability rises
\* with the bin center and -1 when it falls (member-only bins at the lower
\* feature values).
C17_PerfectSeparationSigned ==
    (epc = "done" /\ PerfectSeparation) =>
        /\ IsFin(me) /\ me.v > 0
        /\ pe = Fin(0)
        /\ FSub(FOne, FDiv(pe, me)) = FOne
        /\ TrendSign # 0 => mi.v = IntF(TrendSign)

\* member-only bins at the low feature values: the signed fraction is -1
C17_Witness ==
    /\ epc = "done" /\ PerfectSeparation
    /\ Len(probs) = 3 /\ probs[1] = FOne /\ probs[3] = Fin(0)
    /\ mi.v = IntF(-1)

\* every bin has one and the same membership probability, strictly between 0
\* and 1
UniformProbability ==
    /\ \A i \in 1..Len(probs) : probs[i] = probs[1]
    /\ IsFin(probs[1]) /\ 0 < probs[1].v /\ probs[1].v < Scale

\* C18: when every bin has the same membership probability p, 0 < p < 1, the
\* posterior entropy equals the prior entropy and the signed fraction of
\* entropy explained is 0.
C18_UncorrelatedIsZero ==
    /\ (epc \in {"entropies", "done"} /\ UniformProbability) =>
          IsFin(me) /\ me.v > 0 /\ pe = me
    /\ (epc = "done" /\ UniformProbability) => mi.v = Fin(0)

\* three bins of probability 1/2 each
C18_Witness ==
    /\ epc = "done" /\ UniformProbability /\ Len(probs) = 3
    /\ probs[1] = Fin(Scale \div 2)
    /\ pe = me /\ mi.v = Fin(0)

-----------------------------------------------------------------------------
(* AssemblyTopology: degree, simplex_counts *)

IsError(r) == r.kind \in {"KeyError", "IndexError", "InsufficientPopulation"}

\* self.matrix
FullMatrix(mat) ==
    [kind |-> "matrix", nrows |-> mat.dim, ncols |-> mat.dim, nz |-> mat.nz]

\* a variant of degree that sums along the other axis
DegreeOtherAxis(mat, lk, hasPre, pre, hasPost, post, knd) ==
    LET matrix == IF ~hasPre THEN FullMatrix(mat)
                  ELSE SubMatrix(mat, lk, pre, hasPost, post)
    IN IF matrix.kind # "matrix" THEN matrix
       ELSE IF knd = "out"
       THEN [kind |-> "vector",
             v |-> [j \in 1..matrix.ncols |->
                       Cardinality({rc \in matrix.nz : rc[2] = j - 1})]]
       ELSE IF knd = "in"
       THEN [kind |-> "vector",
             v |-> [i \in 1..matrix.nrows |->
                       Cardinality({rc \in matrix.nz : rc[1] = i - 1})]]
       ELSE [kind |-> "None"]

\* AssemblyTopology.degree(pre_gids, post_gids, kind)
Degree(mat, lk, hasPre, pre, hasPost, post, knd) ==
    LET matrix == IF ~hasPre THEN FullMatrix(mat)
                  ELSE SubMatrix(mat, lk, pre, hasPost, post)
    IN IF matrix.kind # "matrix" THEN matrix
       ELSE IF knd = "in"
       THEN [kind |-> "vector",
             v |-> [j \in 1..matrix.ncols |->
                       Cardinality({rc \in matrix.nz : rc[2] = j - 1})]]
       ELSE IF knd = "out"
       THEN [kind |-> "vector",
             v |-> [i \in 1..matrix.nrows |->
                       Cardinality({rc \in matrix.nz : rc[1] = i - 1})]]
       ELSE [kind |-> "None"]

\* a variant that lets a vertex repeat, so that a self-loop is an edge
SimplicesWithLoops(matrix, k) ==
    {t \in [1..(k + 1) -> 0..(matrix.nrows - 1)] :
        \A i \in 1..(k + 1) : \A j \in 1..(k + 1) :
            i < j => <<t[i], t[j]>> \in matrix.nz}

\* the directed simplices of dimension k of a square matrix: k+1 distinct
\* vertices with an edge from each one to every later one
Simplices(matrix, k) ==
    {t \in [1..(k + 1) -> 0..(matrix.nrows - 1)] :
        \A i \in 1..(k + 1) : \A j \in 1..(k + 1) :
            i < j => (t[i] # t[j] /\ <<t[i], t[j]>> \in matrix.nz)}

\* flagser_count_unweighted(matrix, directed=True): the number of simplices
\* of each dimension, up to the highest dimension that has any
FlagserCount(matrix) ==
    LET top == CHOOSE d \in -1..(matrix.nrows - 1) :
                   /\ \A k \in 0..d : Simplices(matrix, k) # {}
                   /\ (d + 1 <= matrix.nrows - 1 => Simplices(matrix, d + 1) = {})
    IN [k \in 1..(top + 1) |-> Cardinality(Simplices(matrix, k - 1))]

\* AssemblyTopology.simplex_counts(sub_gids)
SimplexCounts(mat, lk, hasSub, sub_gids) ==
    LET matrix == IF ~hasSub THEN FullMatrix(mat)
                  ELSE SubMatrix(mat, lk, sub_gids, FALSE, <<>>)
    IN IF matrix.kind # "matrix" THEN matrix
       ELSE [kind |-> "counts", v |-> FlagserCount(matrix)]

\* AssemblyTopology.density(sub_gids): matrix.getnnz() / np.prod(matrix.shape)
Density(mat, lk, hasSub, sub_gids) ==
    LET matrix == IF ~hasSub THEN FullMatrix(mat)
                  ELSE SubMatrix(mat, lk, sub_gids, FALSE, <<>>)
    IN IF matrix.kind # "matrix" THEN matrix
       ELSE [kind |-> "float",
             v |-> FDiv(IntF(Cardinality(matrix.nz)),
                        IntF(matrix.nrows * matrix.ncols))]

\* (post_gids == self.gids).all(): an elementwise comparison under numpy's
\* broadcasting; lengths that do not broadcast make the expression raise
EqualsAll(post, g) ==
    IF Len(post) = Len(g)
    THEN [ok |-> TRUE, all |-> \A i \in 1..Len(g) : post[i] = g[i]]
    ELSE IF Len(post) = 1
    THEN [ok |-> TRUE, all |-> \A i \in 1..Len(g) : g[i] = post[1]]
    ELSE IF Len(g) = 1
    THEN [ok |-> TRUE, all |-> \A i \in 1..Len(post) : post[i] = g[1]]
    ELSE [ok |-> FALSE, all |-> FALSE]

\* a variant that tests the column gid against pre_gids and the row gid
\* against post_gids
KeptEdgesByColumn(mat, g, pre, post, allPost) ==
    [kind |-> "matrix", nrows |-> Len(g), ncols |-> Len(g),
     nz |-> {rc \in mat.nz :
                /\ g[rc[2] + 1] \in Range(pre)
                /\ (allPost \/ g[rc[1] + 1] \in Range(post))}]

\* the coo_matrix of simplex_list: the edges of the full matrix whose row gid
\* is in pre_gids (and whose column gid is in post_gids), at their positions
\* in the full matrix
KeptEdges(mat, g, pre, post, allPost) ==
    [kind |-> "matrix", nrows |-> Len(g), ncols |-> Len(g),
     nz |-> {rc \in mat.nz :
                /\ g[rc[1] + 1] \in Range(pre)
                /\ (allPost \/ g[rc[2] + 1] \in Range(post))}]

\* flagser_count(matrix, return_simplices=True)["simplices"]: the simplices
\* of each dimension, up to the highest dimension that has any
FlagserSimplices(matrix) ==
    LET top == CHOOSE d \in -1..(matrix.nrows - 1) :
                   /\ \A k \in 0..d : Simplices(matrix, k) # {}
                   /\ (d + 1 <= matrix.nrows - 1 => Simplices(matrix, d + 1) = {})
    IN [k \in 1..(top + 1) |-> Simplices(matrix, k - 1)]

\* AssemblyTopology.simplex_list(pre_gids, post_gids)
SimplexList(mat, lk, g, hasPre, pre, hasPost, post) ==
    LET eq == EqualsAll(post, g)
        matrix == IF ~hasPre THEN FullMatrix(mat)
                  ELSE IF ~hasPost THEN SubMatrix(mat, lk, pre, FALSE, <<>>)
                  ELSE IF ~eq.ok THEN [kind |-> "CompareError"]
                  ELSE KeptEdges(mat, g, pre, post, eq.all)
    IN IF matrix.kind # "matrix" THEN matrix
       ELSE [kind |-> "simplices", v |-> FlagserSimplices(matrix)]

\* AssemblyTopology.betti_counts(sub_gids); the Betti numbers themselves are
\* left out of the model, only whether the call returns them or raises
BettiCounts(mat, lk, hasSub, sub_gids) ==
    LET matrix == IF ~hasSub THEN FullMatrix(mat)
                  ELSE SubMatrix(mat, lk, sub_gids, FALSE, <<>>)
    IN IF matrix.kind # "matrix" THEN matrix
       ELSE [kind |-> "betti"]

\* matrix.todense(): the rows of booleans of a sparse matrix
Dense(matrix) ==
    IF matrix.kind # "matrix" THEN matrix
    ELSE [kind |-> "dense",
          rows |-> [i \in 1..matrix.nrows |->
                       [j \in 1..matrix.ncols |-> <<i - 1, j - 1>> \in matrix.nz]]]

-----------------------------------------------------------------------------
(* to_h5: the compressed-sparse-column datasets of the stored matrix *)

\* self._m.indices: the row positions of the nonzeros, column after column
CscIndices(mat) ==
    Flatten([j \in 1..mat.dim |->
                SortedSeqOf({i \in 0..(mat.dim - 1) : <<i, j - 1>> \in mat.nz})])

\* self._m.indptr: where each column starts in indices
CscIndptr(mat) ==
    [j \in 1..(mat.dim + 1) |-> Cardinality({rc \in mat.nz : rc[2] < j - 1})]

\* self._m.data
CscData(mat) == [k \in 1..Cardinality(mat.nz) |-> TRUE]

\* the group name to_h5 writes to
MatrixGroup == "matrix"

\* the prefixes tried: prefix=None, which stands for "connectivity"
Prefixes == {"connectivity"}

\* the sparse formats of the adjacency matrix handed to the constructor
Layouts == {"csc", "csr", "coo"}

\* self._m.indices of a CSR matrix: the column positions of the nonzeros, row
\* after row
CsrIndices(mat) ==
    Flatten([i \in 1..mat.dim |->
                SortedSeqOf({j \in 0..(mat.dim - 1) : <<i - 1, j>> \in mat.nz})])

\* self._m.indptr of a CSR matrix: where each row starts in indices
CsrIndptr(mat) ==
    [i \in 1..(mat.dim + 1) |-> Cardinality({rc \in mat.nz : rc[1] < i - 1})]

\* the datasets to_h5 creates in the group before it returns or raises: a COO
\* matrix has data but neither indices nor indptr
StoredDatasets(mat, layout, g) ==
    IF layout = "csc"
    THEN [data |-> CscData(mat), indices |-> CscIndices(mat),
          indptr |-> CscIndptr(mat), gids |-> g]
    ELSE IF layout = "csr"
    THEN [data |-> CscData(mat), indices |-> CsrIndices(mat),
          indptr |-> CsrIndptr(mat), gids |-> g]
    ELSE [data |-> CscData(mat)]

\* ConnectivityMatrix.to_h5(fn, prefix) of an object whose matrix has the given
\* format: the file afterwards; create_group raises ValueError when the group
\* is in the file already, self._m.indices raises AttributeError on a COO matrix
ToH5Layout(file, mat, layout, g, prefix) ==
    IF <<prefix, MatrixGroup>> \in DOMAIN file
    THEN [kind |-> "ValueError", file |-> file]
    ELSE [kind |-> IF layout = "coo" THEN "AttributeError" ELSE "None",
          file |-> (<<prefix, MatrixGroup>> :> StoredDatasets(mat, layout, g))
                       @@ file]

\* to_h5 of an object built by from_bluepy or from_h5 (a CSC matrix)
ToH5(file, mat, g, prefix) == ToH5Layout(file, mat, "csc", g, prefix)

\* sparse.csc_matrix((data, indices, indptr), shape=(n, n)); scipy rejects
\* arrays of inconsistent lengths with ValueError
CscMatrix(data, indices, indptr, n) ==
    IF \/ Len(indptr) # n + 1
       \/ indptr[1] # 0
       \/ Len(indices) # Len(data)
       \/ indptr[Len(indptr)] > Len(indices)
    THEN [kind |-> "ValueError"]
    ELSE [kind |-> "matrix",
          m |-> [dim |-> n,
                 nz |-> {rc \in (0..(n - 1)) \X (0..(n - 1)) :
                            \E k \in (indptr[rc[2] + 1] + 1)..indptr[rc[2] + 2] :
                                indices[k] = rc[1] /\ data[k]}]]

\* ConnectivityMatrix.from_h5(fn, group_name, prefix): KeyError when the group
\* or one of its four datasets is not in the file
FromH5(file, group_name, prefix) ==
    IF <<prefix, group_name>> \notin DOMAIN file
    THEN [kind |-> "KeyError"]
    ELSE LET grp == file[<<prefix, group_name>>]
         IN IF {"data", "indices", "indptr", "gids"} \ DOMAIN grp # {}
            THEN [kind |-> "KeyError"]
            ELSE LET adj == CscMatrix(grp.data, grp.indices, grp.indptr,
                                      Len(grp.gids))
                 IN IF adj.kind # "matrix" THEN [kind |-> adj.kind]
                    ELSE [kind |-> "object", m |-> adj.m, gids |-> grp.gids,
                          lookup |-> MakeLookup(grp.gids)]

-----------------------------------------------------------------------------
(* Specification of the operations of an AssemblyTopology object.  The     *)
(* object is one that from_h5 / from_bluepy built: a square matrix of as   *)
(* many rows as there are node ids, the ids distinct, in any stored order. *)

\* sorted id lists: the gids of an assembly, the gids of a circuit
AssemblyGids == {SortedSeqOf(S) : S \in (SUBSET Ids) \ {{}}}

\* the node-id vectors of a circuit: distinct ids in any order
GidVectors == UNION {InjSeqs(Ids, k) : k \in 0..MaxN}

\* the id lists passed to the operations: node subsets, each id once, known
\* or unknown to the object
IdLists == UNION {InjSeqs(Ids, k) : k \in 0..MaxQuery}

\* the kind arguments tried on degree
Kinds == {"in", "out", "both"}

InitTopo ==
    /\ IdleBins /\ IdleEnt /\ IdleBatch /\ IdleProb /\ IdleIsin
       /\ IdleH5 /\ IdleCtrl /\ IdleBluepy
    /\ \E g \in GidVectors :
         /\ gids = g
         /\ lookup = MakeLookup(g)
         /\ m \in Matrices(Len(g))
    /\ cpc = "built" /\ q_pre = <<>> /\ q_has_post = FALSE /\ q_post = <<>>
    /\ sub = NoResult
    /\ t_op = "none" /\ t_has_pre = FALSE /\ t_kind = "none" /\ t_res = NoResult
    /\ h5 = NoFile

\* submatrix / dense_submatrix / subarray (sub_gids, sub_gids_post)
TopoSubmatrix ==
    /\ t_op = "none"
    /\ \E op \in {"submatrix", "dense_submatrix", "subarray"} :
       \E pre \in IdLists :
       \E hasPost \in BOOLEAN :
       \E post \in (IF hasPost THEN IdLists ELSE {<<>>}) :
         /\ t_op' = op
         /\ q_pre' = pre /\ q_has_post' = hasPost /\ q_post' = post
         /\ sub' = SubMatrix(m, lookup, pre, hasPost, post)
         /\ t_res' = IF op = "submatrix" THEN sub' ELSE Dense(sub')
    /\ t_has_pre' = TRUE
    /\ UNCHANGED <<m, gids, lookup, cpc, t_kind, h5>>
    /\ UNCHANGED notTopoVars

\* degree(pre_gids, post_gids, kind)
TopoDegree ==
    /\ t_op = "none"
    /\ \E hasPre \in BOOLEAN :
       \E pre \in (IF hasPre THEN IdLists ELSE {<<>>}) :
       \E hasPost \in BOOLEAN :
       \E post \in (IF hasPost THEN IdLists ELSE {<<>>}) :
       \E knd \in Kinds :
         /\ t_has_pre' = hasPre /\ q_pre' = pre
         /\ q_has_post' = hasPost /\ q_post' = post
         /\ t_kind' = knd
         /\ t_res' = Degree(m, lookup, hasPre, pre, hasPost, post, knd)
    /\ t_op' = "degree"
    /\ UNCHANGED <<m, gids, lookup, cpc, sub, h5>>
    /\ UNCHANGED notTopoVars

\* density(sub_gids)
TopoDensity ==
    /\ t_op = "none"
    /\ \E hasSub \in BOOLEAN :
       \E sg \in (IF hasSub THEN IdLists ELSE {<<>>}) :
         /\ t_has_pre' = hasSub /\ q_pre' = sg
         /\ t_res' = Density(m, lookup, hasSub, sg)
    /\ t_op' = "density"
    /\ UNCHANGED <<m, gids, lookup, cpc, q_has_post, q_post, sub, t_kind, h5>>
    /\ UNCHANGED notTopoVars

\* simplex_counts(sub_gids)
TopoSimplexCounts ==
    /\ t_op = "none"
    /\ \E hasSub \in BOOLEAN :
       \E sg \in (IF hasSub THEN IdLists ELSE {<<>>}) :
         /\ t_has_pre' = hasSub /\ q_pre' = sg
         /\ t_res' = SimplexCounts(m, lookup, hasSub, sg)
    /\ t_op' = "simplex_counts"
    /\ UNCHANGED <<m, gids, lookup, cpc, q_has_post, q_post, sub, t_kind, h5>>
    /\ UNCHANGED notTopoVars

\* simplex_list(pre_gids, post_gids)
TopoSimplexList ==
    /\ t_op = "none"
    /\ \E hasPre \in BOOLEAN :
       \E pre \in (IF hasPre THEN IdLists ELSE {<<>>}) :
       \E hasPost \in BOOLEAN :
       \E post \in (IF hasPost THEN IdLists ELSE {<<>>}) :
         /\ t_has_pre' = hasPre /\ q_pre' = pre
         /\ q_has_post' = hasPost /\ q_post' = post
         /\ t_res' = SimplexList(m, lookup, gids, hasPre, pre, hasPost, post)
    /\ t_op' = "simplex_list"
    /\ UNCHANGED <<m, gids, lookup, cpc, sub, t_kind, h5>>
    /\ UNCHANGED notTopoVars

\* betti_counts(sub_gids)
TopoBettiCounts ==
    /\ t_op = "none"
    /\ \E hasSub \in BOOLEAN :
       \E sg \in (IF hasSub THEN IdLists ELSE {<<>>}) :
         /\ t_has_pre' = hasSub /\ q_pre' = sg
         /\ t_res' = BettiCounts(m, lookup, hasSub, sg)
    /\ t_op' = "betti_counts"
    /\ UNCHANGED <<m, gids, lookup, cpc, q_has_post, q_post, sub, t_kind, h5>>
    /\ UNCHANGED notTopoVars

\* the file fn names when to_h5 is called: a new one, or one that holds a
\* matrix group under the prefix from an earlier save
FilesBefore(prefix) ==
    {NoFile,
     <<prefix, MatrixGroup>> :>
         [data |-> <<>>, indices |-> <<>>, indptr |-> <<0>>, gids |-> <<>>]}

\* a variant of to_h5 that hands its matrix over to the file and keeps none
TopoToH5Consuming ==
    /\ t_op = "none"
    /\ \E prefix \in Prefixes : \E file \in FilesBefore(prefix) :
         LET r == ToH5(file, m, gids, prefix)
         IN /\ h5' = r.file
            /\ t_res' = [kind |-> r.kind]
    /\ t_op' = "to_h5"
    /\ m' = [dim |-> m.dim, nz |-> {}]
    /\ UNCHANGED <<gids, lookup, cpc, q_pre, q_has_post, q_post, sub,
                   t_has_pre, t_kind>>
    /\ UNCHANGED notTopoVars

\* to_h5(fn, prefix)
TopoToH5 ==
    /\ t_op = "none"
    /\ \E prefix \in Prefixes : \E file \in FilesBefore(prefix) :
         LET r == ToH5(file, m, gids, prefix)
         IN /\ h5' = r.file
            /\ t_res' = [kind |-> r.kind]
    /\ t_op' = "to_h5"
    /\ UNCHANGED <<m, gids, lookup, cpc, q_pre, q_has_post, q_post, sub,
                   t_has_pre, t_kind>>
    /\ UNCHANGED notTopoVars

\* the caller is done with the returned value (and with the file of a save);
\* the object takes the next call
TopoDone ==
    /\ t_op # "none" /\ cpc = "built"
    /\ t_op' = "none" /\ t_has_pre' = FALSE /\ t_kind' = "none"
    /\ t_res' = NoResult /\ h5' = NoFile
    /\ q_pre' = <<>> /\ q_has_post' = FALSE /\ q_post' = <<>> /\ sub' = NoResult
    /\ UNCHANGED <<m, gids, lookup, cpc>>
    /\ UNCHANGED notTopoVars

NextTopo ==
    \/ TopoSubmatrix \/ TopoDegree \/ TopoDensity \/ TopoSimplexCounts
    \/ TopoSimplexList \/ TopoBettiCounts \/ TopoToH5 \/ TopoDone

SpecTopo == InitTopo /\ [][NextTopo]_vars

-----------------------------------------------------------------------------
(* Specification of simplex_list on graphs large enough to hold simplices  *)
(* of dimension 2: one call on an object as from_h5 builds it               *)

ListIds == 1..MaxListN

\* the node-id vectors: the ids of a circuit, ascending or descending
ListGidVectors ==
    UNION {{SortedSeqOf(1..k), Reverse(SortedSeqOf(1..k))} : k \in 0..MaxListN}

\* square boolean matrices of dimension d with at most MaxListEdges nonzeros
ListMatrices(d) ==
    {[dim |-> d, nz |-> E] :
        E \in {X \in SUBSET ((0..(d - 1)) \X (0..(d - 1))) :
                  Cardinality(X) <= MaxListEdges}}

\* the id lists passed as pre_gids: the sorted gids of an assembly
ListQueries == {SortedSeqOf(S) : S \in (SUBSET ListIds) \ {{}}}

\* the id lists passed as post_gids: the whole gid vector, as
\* assembly_prob_from_sinks passes it, or a single target
ListPosts(g) == {g} \cup {<<id>> : id \in ListIds}

InitList ==
    /\ IdleBins /\ IdleEnt /\ IdleBatch /\ IdleProb /\ IdleIsin
       /\ IdleH5 /\ IdleCtrl /\ IdleBluepy
    /\ \E g \in ListGidVectors :
         /\ gids = g
         /\ lookup = MakeLookup(g)
         /\ m \in ListMatrices(Len(g))
    /\ cpc = "built" /\ q_pre = <<>> /\ q_has_post = FALSE /\ q_post = <<>>
    /\ sub = NoResult
    /\ t_op = "none" /\ t_has_pre = FALSE /\ t_kind = "none" /\ t_res = NoResult
    /\ h5 = NoFile

\* conn_mat.simplex_list(pre_gids, post_gids) with both id lists given
ListSimplexList ==
    /\ t_op = "none"
    /\ \E pre \in ListQueries : \E post \in ListPosts(gids) :
         /\ t_has_pre' = TRUE /\ q_pre' = pre
         /\ q_has_post' = TRUE /\ q_post' = post
         /\ t_res' = SimplexList(m, lookup, gids, TRUE, pre, TRUE, post)
    /\ t_op' = "simplex_list"
    /\ UNCHANGED <<m, gids, lookup, cpc, sub, t_kind, h5>>
    /\ UNCHANGED notTopoVars

NextList == ListSimplexList

SpecList == InitList /\ [][NextList]_vars

-----------------------------------------------------------------------------
(* Claims on AssemblyTopology *)

\* the matrix the last operation worked on: the submatrix of its id lists, or
\* the full matrix when the first list is None
OperandMatrix ==
    IF t_has_pre THEN SubMatrix(m, lookup, q_pre, q_has_post, q_post)
    ELSE FullMatrix(m)

\* column sums and row sums of a matrix, entry by entry
ColSums(matrix) ==
    [j \in 1..matrix.ncols |->
        SumSeq([i \in 1..matrix.nrows |->
                   IF <<i - 1, j - 1>> \in matrix.nz THEN 1 ELSE 0])]

RowSums(matrix) ==
    [i \in 1..matrix.nrows |->
        SumSeq([j \in 1..matrix.ncols |->
                   IF <<i - 1, j - 1>> \in matrix.nz THEN 1 ELSE 0])]

\* in- and out-degree of the node at position p (0-based) in the whole graph
WholeInDegree(p) == Cardinality({i \in 0..(m.dim - 1) : <<i, p>> \in m.nz})
WholeOutDegree(p) == Cardinality({j \in 0..(m.dim - 1) : <<p, j>> \in m.nz})

\* C11: degree(S, kind='in') is the vector of column sums of submatrix(S) and
\* degree(S, kind='out') the vector of its row sums (an error of submatrix is
\* degree's error); with S the node-id vector in stored order, or with
\* pre_gids=None, they are the in- and out-degrees of the whole graph.
C11_DegreeIsAxisSum ==
    (t_op = "degree" /\ t_kind \in {"in", "out"}) =>
        /\ OperandMatrix.kind = "matrix" =>
              t_res = [kind |-> "vector",
                       v |-> IF t_kind = "in" THEN ColSums(OperandMatrix)
                             ELSE RowSums(OperandMatrix)]
        /\ OperandMatrix.kind # "matrix" => t_res = OperandMatrix
        /\ (~t_has_pre \/ (~q_has_post /\ q_pre = gids)) =>
              t_res = [kind |-> "vector",
                       v |-> [p \in 1..Len(gids) |->
                                 IF t_kind = "in" THEN WholeInDegree(p - 1)
                                 ELSE WholeOutDegree(p - 1)]]

\* in-degrees of the whole node set, passed as S, that differ from the
\* out-degrees
C11_Witness ==
    /\ t_op = "degree" /\ t_kind = "in" /\ t_has_pre /\ ~q_has_post
    /\ Len(gids) = 2 /\ q_pre = gids /\ gids[1] > gids[2]
    /\ t_res = [kind |-> "vector", v |-> <<0, 1>>]

\* every id of the list is an id of the object
AllKnown(ids) == \A id \in Range(ids) : id \in Range(gids)

\* C12: for every node subset S, the empty one included, density(S) is a
\* defined number in [0, 1]; the density of the whole graph is the number of
\* nonzero entries divided by N squared.
C12_DensityDefined ==
    (t_op = "density" /\ AllKnown(q_pre)) =>
        /\ t_res.kind = "float"
        /\ IsFin(t_res.v) /\ 0 <= t_res.v.v /\ t_res.v.v <= Scale
        /\ ~t_has_pre =>
              t_res.v.v * (m.dim * m.dim) <= Cardinality(m.nz) * Scale
              /\ Cardinality(m.nz) * Scale < (t_res.v.v + 1) * (m.dim * m.dim)

\* the count of dimension k in a list of simplex counts (none listed: zero)
CountAt(v, k) == IF k + 1 <= Len(v) THEN v[k + 1] ELSE 0

\* the nodes simplex_counts was asked about
CountedIds == IF t_has_pre THEN Range(q_pre) ELSE Range(gids)

\* the directed edges of the adjacency within a set of nodes, as id pairs
InducedEdges(S) ==
    {ab \in S \X S : <<PositionOf(ab[1]), PositionOf(ab[2])>> \in m.nz}

C19_StoreNeverChanges ==
    [][cpc = "built" => (m' = m /\ gids' = gids /\ lookup' = lookup)]_vars

\* a graph with an edge has been saved to a new file
C19_Witness ==
    /\ t_op = "to_h5" /\ t_res.kind = "None"
    /\ h5[<<"connectivity", MatrixGroup>>].gids = gids
    /\ Len(h5[<<"connectivity", MatrixGroup>>].indices) = 1
    /\ m.nz # {} /\ lookup = MakeLookup(gids)

\* C28: degree called with a kind other than 'in' or 'out' signals an error to
\* the caller; it never returns normally with an empty/None result
C28_DegreeKindRejected ==
    (t_op = "degree" /\ t_kind \notin {"in", "out"}) =>
        t_res.kind \in {"ValueError", "KeyError", "IndexError"}

\* the gid of vertex v of a simplex listed from the full-size matrix
GidOfVertex(v) == gids[v + 1]

\* the simplices of dimension at least 1 of the returned list
ListedSimplices ==
    IF t_res.kind = "simplices"
    THEN UNION {t_res.v[k] : k \in 2..Len(t_res.v)}
    ELSE {}

\* C24: for every simplex of dimension at least 1 returned by
\* simplex_list(pre_gids, post_gids), every edge of the simplex has its source
\* in pre_gids and its target in post_gids; hence every vertex but the last
\* (the sink) is in pre_gids
C24_SimplexListEdges ==
    (t_op = "simplex_list" /\ t_has_pre /\ q_has_post) =>
        \A s \in ListedSimplices :
            /\ \A i \in 1..Len(s) : \A j \in 1..Len(s) :
                   i < j => /\ <<s[i], s[j]>> \in m.nz
                            /\ GidOfVertex(s[i]) \in Range(q_pre)
                            /\ GidOfVertex(s[j]) \in Range(q_post)
            /\ \A i \in 1..(Len(s) - 1) : GidOfVertex(s[i]) \in Range(q_pre)

\* a simplex of dimension 2 is listed whose sink is outside pre_gids
C24_Witness ==
    /\ t_op = "simplex_list" /\ t_has_pre /\ q_has_post
    /\ \E s \in ListedSimplices :
          /\ Len(s) = 3
          /\ GidOfVertex(s[3]) \notin Range(q_pre)

-----------------------------------------------------------------------------
(* Chance level and per-bin membership probabilities of one assembly:        *)
(* frac_entropy_explained_by_indegree, frac_entropy_explained_by_syn_nnd,    *)
(* assembly_prob_from_sinks                                                  *)

\* np.in1d(ar1, ar2, assume_unique=True) takes one of two routes, by the sizes
\* of its arguments and the numpy build: a loop over ar2, or one stable sort
\* of ar1 ++ ar2 that marks an element followed by an equal one
In1dMethods == {"loop", "sort"}

In1d(ar1, ar2, method) ==
    [i \in 1..Len(ar1) |->
        \/ ar1[i] \in Range(ar2)
        \/ (method = "sort" /\ \E j \in (i + 1)..Len(ar1) : ar1[j] = ar1[i])]

\* idx.sum()
CountTrue(idx) == Cardinality({i \in 1..Len(idx) : idx[i]})

\* idx.sum() / len(idx)
Fraction(idx) == FDiv(IntF(CountTrue(idx)), IntF(Len(idx)))

\* the array the chance level of an analysis tests against assembly.gids:
\* gids (indegree, sinks), assembly_nnds[assembly_id].to_numpy() (syn_nnd)
ChanceArray(fn, g, vals) == IF fn = "syn_nnd" THEN vals ELSE g

\* a[mask]
Masked(a, mask) ==
    LET keep == SortedSeqOf({i \in 1..Len(a) : mask[i]})
    IN [k \in 1..Len(keep) |-> a[keep[k]]]

\* np.unique(x, return_counts=True)
UniqueValues(x) == SortedSeqOf(Range(x))
UniqueCounts(x) ==
    LET u == UniqueValues(x)
    IN [k \in 1..Len(u) |-> Cardinality({i \in 1..Len(x) : x[i] = u[k]})]

\* np.insert(a, 0, v)
InsertFirst(a, v) == <<v>> \o a

InitProb ==
    /\ IdleBins /\ IdleConn /\ IdleEnt /\ IdleBatch /\ IdleTopo
       /\ IdleIsin /\ IdleH5 /\ IdleCtrl /\ IdleBluepy
    /\ p_fn \in {"indegree", "syn_nnd", "sinks"}
    /\ p_gids \in GidVectors \ {<<>>}
    /\ p_vals \in [1..Len(p_gids) -> 0..MaxVal]
    /\ p_asm \in AssemblyGids
    /\ p_min \in 1..MaxMinSamples
    /\ p_chance = NoFloat /\ p_edges = <<>> /\ p_centers = <<>> /\ p_probs = <<>>
    /\ p_counts = <<>> /\ p_overall = NoFloat
    /\ p_pc = "input"

\* idx = np.in1d(..., assembly.gids, assume_unique=True)
\* chance_levels[assembly_id] = idx.sum() / len(idx)
ChanceLevel ==
    /\ p_pc = "input"
    /\ \E method \in In1dMethods :
         p_chance' = Fraction(In1d(ChanceArray(p_fn, p_gids, p_vals), p_asm, method))
    /\ p_pc' = "chance"
    /\ UNCHANGED <<p_fn, p_gids, p_vals, p_asm, p_min, p_edges, p_centers, p_probs,
                   p_counts, p_overall>>
    /\ UNCHANGED notProbVars

\* assembly_prob_from_sinks: determine_bins on the sink counts, then the edge
\* -1 and the center 0 put in front
SinkBins ==
    /\ p_pc = "chance" /\ p_fn = "sinks"
    /\ LET e == BinEdges(UniqueValues(p_vals), UniqueCounts(p_vals), p_min)
       IN /\ p_edges' = InsertFirst(e, -1)
          /\ p_centers' = InsertFirst(BinCenters(e), 0)
    /\ p_pc' = "binned"
    /\ UNCHANGED <<p_fn, p_gids, p_vals, p_asm, p_min, p_chance, p_probs,
                   p_counts, p_overall>>
    /\ UNCHANGED notProbVars

\* the nodes of bin j: gids[bin_idx == j]
BinNodes(j) ==
    Masked(p_gids, [i \in 1..Len(p_gids) |-> Digitize(p_vals[i], p_edges) = j])

\* probs.append(idx.sum() / len(idx)) for every bin center
SinkProbs ==
    /\ p_pc = "binned" /\ p_fn = "sinks"
    /\ \E method \in In1dMethods :
         p_probs' = [j \in 1..Len(p_centers) |->
                        Fraction(In1d(BinNodes(j), p_asm, method))]
    /\ p_pc' = "probs"
    /\ UNCHANGED <<p_fn, p_gids, p_vals, p_asm, p_min, p_chance, p_edges, p_centers,
                   p_counts, p_overall>>
    /\ UNCHANGED notProbVars

\* binned_gids, bin_centers = _bin_gids_by_innervation(assembly_indegrees,
\* gids, min_samples): determine_bins on the in-degrees, each node assigned by
\* right-closed digitization against the edges, one bin per bin center
InnervationBins ==
    /\ p_pc = "chance" /\ p_fn = "indegree"
    /\ LET e == BinEdges(UniqueValues(p_vals), UniqueCounts(p_vals), p_min)
       IN /\ p_edges' = e
          /\ p_centers' = BinCenters(e)
    /\ p_pc' = "binned"
    /\ UNCHANGED <<p_fn, p_gids, p_vals, p_asm, p_min, p_chance, p_probs,
                   p_counts, p_overall>>
    /\ UNCHANGED notProbVars

\* for bin_center in bin_centers[pre_assembly]:
\*     probs.append(idx.sum() / len(idx))
\*     counts.append(len(binned_gids_tmp[bin_center]))
InnervationProbs ==
    /\ p_pc = "binned" /\ p_fn = "indegree"
    /\ \E method \in In1dMethods :
         p_probs' = [j \in 1..Len(p_centers) |->
                        Fraction(In1d(BinNodes(j), p_asm, method))]
    /\ p_counts' = [j \in 1..Len(p_centers) |-> Len(BinNodes(j))]
    /\ p_pc' = "probs"
    /\ UNCHANGED <<p_fn, p_gids, p_vals, p_asm, p_min, p_chance, p_edges, p_centers,
                   p_overall>>
    /\ UNCHANGED notProbVars

\* me, pe = _mi_implementation(counts, probs):
\* overall_p = (degree_counts * degree_p).sum() / degree_counts.sum()
MiOverallP ==
    /\ p_pc = "probs" /\ p_fn = "indegree"
    /\ p_overall' = OverallP(p_counts, p_probs)
    /\ p_pc' = "mi"
    /\ UNCHANGED <<p_fn, p_gids, p_vals, p_asm, p_min, p_chance, p_edges, p_centers,
                   p_probs, p_counts>>
    /\ UNCHANGED notProbVars

NextProb ==
    \/ ChanceLevel \/ SinkBins \/ SinkProbs
    \/ InnervationBins \/ InnervationProbs \/ MiOverallP

SpecProb == InitProb /\ [][NextProb]_vars

-----------------------------------------------------------------------------
(* Claims on chance levels and per-bin probabilities *)

\* the assembly members among the analysed population
MembersInPopulation == {i \in 1..Len(p_gids) : p_gids[i] \in Range(p_asm)}

\* C15: for every assembly and every feature analysis (in-degree, synapse
\* nearest-neighbour distance, simplex sinks) the chance level reported is
\* |assembly members in the analysed population| / |analysed population|.
C15_ChanceLevel ==
    p_pc \in {"chance", "binned", "probs", "mi"} =>
        p_chance = FDiv(IntF(Cardinality(MembersInPopulation)), IntF(Len(p_gids)))

\* C16: every bin for which a membership probability is computed holds at
\* least one node, so the probability is a defined number in [0, 1] and never
\* a NaN from 0/0; also in assembly_prob_from_sinks when all nodes share one
\* sink count.
C16_NoEmptyBin ==
    p_pc = "probs" =>
        \A j \in 1..Len(p_probs) :
            /\ Len(BinNodes(j)) >= 1
            /\ IsFin(p_probs[j]) /\ 0 <= p_probs[j].v /\ p_probs[j].v <= Scale

\* the nodes of the population that the bins hold
BinnedNodes == UNION {Range(BinNodes(j)) : j \in 1..Len(p_centers)}

\* C27: in frac_entropy_explained_by_indegree, for every assembly and every
\* binning, the overall (prior) membership probability that
\* _mi_implementation derives from the per-bin counts and probabilities equals
\* the chance level |assembly| / |population| of the same assembly (up to the
\* rounding of the divisions), i.e. the bins account for every node of the
\* population exactly once
C27_PriorIsChanceLevel ==
    (p_pc = "mi" /\ p_fn = "indegree") =>
        /\ BinnedNodes = Range(p_gids)
        /\ SumSeq(p_counts) = Len(p_gids)
        /\ IsFin(p_overall) /\ IsFin(p_chance)
        /\ Abs(p_overall.v - p_chance.v) <= 2

-----------------------------------------------------------------------------
(* utils._il_isin: np.isin, in one piece or chunk by chunk on a thread pool *)

\* np.isin(element, test_elements)
IsIn(element, test_elements) ==
    [i \in 1..Len(element) |-> element[i] \in Range(test_elements)]

\* np.array_split(ary, n), n > 0: n sections in order, the first len % n of
\* them one element longer than the rest
ArraySplit(ary, n) ==
    LET each == Len(ary) \div n
        extras == Len(ary) % n
        start(k) == (k - 1) * each + (IF k - 1 < extras THEN k - 1 ELSE extras)
        size(k) == each + (IF k <= extras THEN 1 ELSE 0)
    IN [k \in 1..n |-> SubSeq(ary, start(k) + 1, start(k) + size(k))]

\* a job whose result is not in yet
Pending == [kind |-> "pending"]

InitIsin ==
    /\ IdleBins /\ IdleConn /\ IdleEnt /\ IdleBatch /\ IdleTopo
       /\ IdleProb /\ IdleH5 /\ IdleCtrl /\ IdleBluepy
    /\ i_whom \in SeqsUpTo(Ids, MaxWhom)
    /\ i_where \in {SortedSeqOf(S) : S \in SUBSET Ids}
    /\ i_parallel \in BOOLEAN
    /\ i_ncpu \in 1..MaxCpu
    /\ i_chunks = <<>> /\ i_flt = <<>> /\ i_res = NoResult
    /\ i_pc = "call"

\* parallel is false: return np.isin(whom, where)
IsinSequential ==
    /\ i_pc = "call" /\ ~i_parallel
    /\ i_res' = [kind |-> "array", v |-> IsIn(i_whom, i_where)]
    /\ i_pc' = "returned"
    /\ UNCHANGED <<i_whom, i_where, i_parallel, i_ncpu, i_chunks, i_flt>>
    /\ UNCHANGED notIsinVars

\* parallel is true: nproc = os.cpu_count() - 1, a pool of nproc threads and
\* np.array_split(whom, nproc); with nproc = 0 both raise ValueError
IsinSplit ==
    /\ i_pc = "call" /\ i_parallel
    /\ LET nproc == i_ncpu - 1
       IN IF nproc = 0
          THEN /\ i_res' = [kind |-> "ValueError"]
               /\ i_pc' = "raised"
               /\ UNCHANGED <<i_chunks, i_flt>>
          ELSE /\ i_chunks' = ArraySplit(i_whom, nproc)
               /\ i_flt' = [k \in 1..nproc |-> Pending]
               /\ i_pc' = "mapping"
               /\ UNCHANGED i_res
    /\ UNCHANGED <<i_whom, i_where, i_parallel, i_ncpu>>
    /\ UNCHANGED notIsinVars

\* one job of the pool, delayed(np.isin)(chunk, where), finishes; the jobs
\* finish in any order
IsinChunk ==
    /\ i_pc = "mapping"
    /\ \E k \in 1..Len(i_chunks) :
         /\ i_flt[k] = Pending
         /\ i_flt' = [i_flt EXCEPT ![k] = [kind |-> "array",
                                           v |-> IsIn(i_chunks[k], i_where)]]
    /\ UNCHANGED <<i_whom, i_where, i_parallel, i_ncpu, i_chunks, i_res, i_pc>>
    /\ UNCHANGED notIsinVars

\* return np.concatenate(flt), once every job is in
IsinConcatenate ==
    /\ i_pc = "mapping"
    /\ \A k \in 1..Len(i_flt) : i_flt[k] # Pending
    /\ i_res' = [kind |-> "array",
                 v |-> Flatten([k \in 1..Len(i_flt) |-> i_flt[k].v])]
    /\ i_pc' = "returned"
    /\ UNCHANGED <<i_whom, i_where, i_parallel, i_ncpu, i_chunks, i_flt>>
    /\ UNCHANGED notIsinVars

NextIsin == IsinSequential \/ IsinSplit \/ IsinChunk \/ IsinConcatenate

SpecIsin == InitIsin /\ [][NextIsin]_vars

-----------------------------------------------------------------------------
(* Claims on _il_isin *)

\* C20: for every input and every number of available CPUs, the call with
\* parallel=True returns the boolean vector the call with parallel=False
\* returns, in the same order and of the same length; the parallel path never
\* changes the result.
C20_ParallelEqualsSequential ==
    (i_parallel /\ i_pc \in {"returned", "raised"}) =>
        i_res = [kind |-> "array", v |-> IsIn(i_whom, i_where)]

\* the same, on machines with more than one CPU
C20_ParallelEqualsSequentialMultiCpu ==
    (i_parallel /\ i_ncpu > 1 /\ i_pc \in {"returned", "raised"}) =>
        i_res = [kind |-> "array", v |-> IsIn(i_whom, i_where)]

-----------------------------------------------------------------------------
(* Control populations of the graph store *)

\* covariates of a node (the "depth" and "mtype" indices)
DepthOf(id) == id \div 2
MtypeOf(id) == (id + 1) \div 2

\* random_n_gids(ref): as many ids as ref, drawn without replacement from the
\* full population
RandomNGids(lk, ref) == InjSeqs(Range(lk.index), Len(ref))

\* random_numerical_gids(ref): for each reference id in turn an id not drawn
\* yet whose depth is nearest to the reference id's
RandomNumericalGids(lk, ref) ==
    {q \in InjSeqs(Range(lk.index), Len(ref)) :
        \A i \in 1..Len(ref) :
            \A other \in Range(lk.index) \ {q[j] : j \in 1..(i - 1)} :
                Abs(DepthOf(q[i]) - DepthOf(ref[i])) <=
                    Abs(DepthOf(other) - DepthOf(ref[i]))}

\* a variant that fills up from the whole population when a category cannot be
\* filled
RandomCategoricalGidsFillUp(lk, ref) ==
    LET matched ==
            {q \in InjSeqs(Range(lk.index), Len(ref)) :
                \A c \in {MtypeOf(id) : id \in Range(ref) \cup Range(q)} :
                    Cardinality({i \in 1..Len(q) : MtypeOf(q[i]) = c}) =
                        Cardinality({i \in 1..Len(ref) : MtypeOf(ref[i]) = c})}
    IN IF matched = {} THEN InjSeqs(Range(lk.index), Len(ref)) ELSE matched

\* random_categorical_gids(ref): for each mtype as many ids of that mtype as
\* ref has, drawn without replacement; none when a category cannot be filled
RandomCategoricalGids(lk, ref) ==
    {q \in InjSeqs(Range(lk.index), Len(ref)) :
        \A c \in {MtypeOf(id) : id \in Range(ref) \cup Range(q)} :
            Cardinality({i \in 1..Len(q) : MtypeOf(q[i]) = c}) =
                Cardinality({i \in 1..Len(ref) : MtypeOf(ref[i]) = c})}

Controls(key, lk, ref) ==
    IF key = "n" THEN RandomNGids(lk, ref)
    ELSE IF key = "depths" THEN RandomNumericalGids(lk, ref)
    ELSE RandomCategoricalGids(lk, ref)

-----------------------------------------------------------------------------
(* in_degree_assemblies, simplex_counts_assemblies *)

NSeeds == Len(b_groups)

\* post_gids of the seed: the gids of assembly post_id, or None
HasPost == b_post_id # 0
PostGids(seed) == IF HasPost THEN b_groups[seed][b_post_id] ELSE <<>>

\* the value computed for one population of one seed
ItemValue(seed, pop) ==
    IF b_fn = "in_degree_assemblies"
    THEN Degree(m, lookup, TRUE, pop, HasPost, PostGids(seed), "in")
    ELSE SimplexCounts(m, lookup, TRUE, pop)

\* a dict comprehension over the assemblies of the seed: the dict, or the
\* exception of the first item that raises
Comprehension(seed, pops) ==
    LET vals == [a \in 1..Len(pops) |-> ItemValue(seed, pops[a])]
        bad == {a \in 1..Len(pops) : IsError(vals[a])}
    IN IF bad = {} THEN [kind |-> "dict", d |-> vals]
       ELSE [kind |-> "raise",
             e |-> vals[CHOOSE a \in bad : \A a2 \in bad : a <= a2].kind]

NextStmt(stmt) ==
    IF stmt = "main" THEN "n"
    ELSE IF stmt = "n" THEN "depths"
    ELSE IF stmt = "depths" THEN "mtypes"
    ELSE "main"

InitBatch ==
    /\ IdleBins /\ IdleEnt /\ IdleTopo /\ IdleProb /\ IdleIsin
       /\ IdleH5 /\ IdleCtrl /\ IdleBluepy
    /\ \E g \in AssemblyGids :
         /\ gids = g
         /\ lookup = MakeLookup(g)
         /\ m \in Matrices(Len(g))
    /\ cpc = "built" /\ q_pre = <<>> /\ q_has_post = FALSE /\ q_post = <<>>
    /\ sub = NoResult
    /\ b_fn \in {"in_degree_assemblies", "simplex_counts_assemblies"}
    /\ \E ns \in 1..MaxSeeds :
         b_groups \in [1..ns -> UNION {[1..k -> AssemblyGids] : k \in 1..MaxAssemblies}]
    /\ b_post_id \in (IF b_fn = "in_degree_assemblies" THEN 0..1 ELSE {0})
    /\ b_seed = 1 /\ b_stmt = "main"
    /\ b_main = <<>>
    /\ b_ctrl = [s \in 1..Len(b_groups) |-> <<>>]
    /\ b_pc = "loop"

\* in_degrees[seed] = {assembly.idx: conn_mat.degree(assembly.gids, ...) ...}
\* (simplex_counts[seed] = {assembly.idx: conn_mat.simplex_counts(...) ...});
\* an exception of an item leaves the function
BatchMain ==
    /\ b_pc = "loop" /\ b_seed <= NSeeds /\ b_stmt = "main"
    /\ LET c == Comprehension(b_seed, b_groups[b_seed])
       IN IF c.kind = "dict"
          THEN /\ b_main' = Append(b_main, c.d)
               /\ b_stmt' = NextStmt(b_stmt)
               /\ b_pc' = "loop"
          ELSE /\ b_pc' = "raised"
               /\ UNCHANGED <<b_main, b_stmt>>
    /\ UNCHANGED <<b_fn, b_groups, b_post_id, b_seed, b_ctrl>>
    /\ UNCHANGED <<notBatchVars, connVars>>

\* in_d_control[seed][key] = {assembly.idx: conn_mat.degree(<control>, ...) ...}
\* for key "n", "depths", "mtypes" in turn; after "mtypes" the next seed
BatchControl ==
    /\ b_pc = "loop" /\ b_seed <= NSeeds /\ b_stmt # "main"
    /\ LET grp == b_groups[b_seed]
       IN IF \E a \in 1..Len(grp) : Controls(b_stmt, lookup, grp[a]) = {}
          THEN /\ b_pc' = "raised"
               /\ UNCHANGED <<b_ctrl, b_stmt, b_seed>>
          ELSE \E ctl \in [1..Len(grp) -> SeqsUpTo(Ids, MaxN)] :
               /\ \A a \in 1..Len(grp) : ctl[a] \in Controls(b_stmt, lookup, grp[a])
               /\ LET c == Comprehension(b_seed, ctl)
                  IN IF c.kind = "dict"
                     THEN /\ b_ctrl' = [b_ctrl EXCEPT ![b_seed] = (b_stmt :> c.d) @@ @]
                          /\ b_stmt' = NextStmt(b_stmt)
                          /\ b_seed' = IF b_stmt = "mtypes" THEN b_seed + 1 ELSE b_seed
                          /\ b_pc' = "loop"
                     ELSE /\ b_pc' = "raised"
                          /\ UNCHANGED <<b_ctrl, b_stmt, b_seed>>
    /\ UNCHANGED <<b_fn, b_groups, b_post_id, b_main>>
    /\ UNCHANGED <<notBatchVars, connVars>>

\* return in_degrees, in_d_control
BatchReturn ==
    /\ b_pc = "loop" /\ b_seed > NSeeds
    /\ b_pc' = "returned"
    /\ UNCHANGED <<b_fn, b_groups, b_post_id, b_seed, b_stmt, b_main, b_ctrl>>
    /\ UNCHANGED <<notBatchVars, connVars>>

NextBatch == BatchMain \/ BatchControl \/ BatchReturn

SpecBatch == InitBatch /\ [][NextBatch]_vars

-----------------------------------------------------------------------------
(* Claims on the batch drivers *)

\* what the caller of the batch function receives: the main dict when the
\* function returned, nothing when an exception left it
BatchResult == IF b_pc = "returned" THEN b_main ELSE <<>>

\* C7: in a batch over several seeds and assemblies, a failure of the
\* computation for one (assembly, seed) item aborts only that item: once the
\* batch has ended, every item whose own computation does not fail is present
\* in the result.
C7_FailureAbortsOnlyItem ==
    b_pc \in {"returned", "raised"} =>
        \A s \in 1..NSeeds : \A a \in 1..Len(b_groups[s]) :
            ~IsError(ItemValue(s, b_groups[s][a])) =>
                /\ s \in DOMAIN BatchResult
                /\ a \in DOMAIN BatchResult[s]

-----------------------------------------------------------------------------
(* Specification of a save followed by a load: an object of any sparse      *)
(* format is written with to_h5 and read back with from_h5 under the same  *)
(* prefix and the group name the caller is configured with                  *)

\* the group names from_h5 is called with: the one to_h5 writes, and the one
\* find_synapse_clusters.py reads
GroupNames == {"matrix", "full_matrix"}

InitH5 ==
    /\ IdleBins /\ IdleEnt /\ IdleBatch /\ IdleProb /\ IdleIsin
       /\ IdleCtrl /\ IdleBluepy
    /\ \E g \in GidVectors :
         /\ gids = g
         /\ lookup = MakeLookup(g)
         /\ m \in Matrices(Len(g))
    /\ cpc = "built" /\ q_pre = <<>> /\ q_has_post = FALSE /\ q_post = <<>>
    /\ sub = NoResult
    /\ t_op = "none" /\ t_has_pre = FALSE /\ t_kind = "none" /\ t_res = NoResult
    /\ h5 = NoFile
    /\ h_layout \in Layouts
    /\ h_group \in GroupNames
    /\ h_prefix \in Prefixes
    /\ h_saved = NoResult /\ h_loaded = NoResult /\ h_pc = "built"

\* conn_mat.to_h5(fn, prefix)
H5Save ==
    /\ h_pc = "built"
    /\ \E file \in FilesBefore(h_prefix) :
         LET r == ToH5Layout(file, m, h_layout, gids, h_prefix)
         IN /\ h5' = r.file
            /\ h_saved' = [kind |-> r.kind]
    /\ h_pc' = "saved"
    /\ UNCHANGED <<h_layout, h_group, h_prefix, h_loaded>>
    /\ UNCHANGED <<connVars, t_op, t_has_pre, t_kind, t_res>>
    /\ UNCHANGED notH5Vars

\* ConnectivityMatrix.from_h5(fn, group_name, prefix)
H5Load ==
    /\ h_pc = "saved"
    /\ h_loaded' = FromH5(h5, h_group, h_prefix)
    /\ h_pc' = "loaded"
    /\ UNCHANGED <<h_layout, h_group, h_prefix, h_saved>>
    /\ UNCHANGED <<connVars, topoVars>>
    /\ UNCHANGED notH5Vars

NextH5 == H5Save \/ H5Load

SpecH5 == InitH5 /\ [][NextH5]_vars

-----------------------------------------------------------------------------
(* Claims on the h5 round trip *)

\* C21: saving with to_h5 and loading back with from_h5 under the same prefix
\* and the configured group name returns an object with the same adjacency
\* entries and the same node-id vector, for any group name and any sparse
\* storage layout of the saved matrix
C21_RoundTrip ==
    (h_pc = "loaded" /\ h_saved.kind = "None") =>
        /\ h_loaded.kind = "object"
        /\ h_loaded.m = m
        /\ h_loaded.gids = gids

\* the round trip of a CSC matrix read back from the group "matrix"
C21_RoundTripCscMatrixGroup ==
    (h_pc = "loaded" /\ h_saved.kind = "None"
        /\ h_layout = "csc" /\ h_group = MatrixGroup) =>
        /\ h_loaded.kind = "object"
        /\ h_loaded.m = m
        /\ h_loaded.gids = gids

-----------------------------------------------------------------------------
(* Random control populations: one draw of a control for a reference       *)
(* assembly, by np.random.choice in the callers or by the graph store      *)

\* a variant that draws with replacement (np.random.choice's default)
RandomChoiceWithReplacement(a, size) ==
    {[i \in 1..size |-> a[idx[i]]] : idx \in [1..size -> 1..Len(a)]}

\* np.random.choice(a, size, replace=False): the possible samples; none when
\* size is larger than the population (ValueError)
RandomChoice(a, size) ==
    IF size > Len(a) THEN {}
    ELSE {Take(a, idx) : idx \in InjSeqs(1..Len(a), size)}

\* a variant that takes the reference's members out of the pool first
EqualCountChoiceExcluding(pop, ref, size) ==
    RandomChoice(SortedSeqOf(Range(pop) \ Range(ref)), size)

\* np.random.choice(pre_gids, len(assembly.gids), replace=False),
\* np.random.choice(conn_mat.gids, mean_size, replace=False)
EqualCountChoice(pop, ref, size) == RandomChoice(pop, size)

\* the calls that draw a control
ChoiceCallers == {"get_mtype_indegree", "consensus_instantiations"}
StoreCallers == {"random_n_gids", "random_categorical_gids"}

\* the controls a call can return; none when it raises
ControlsOf(fn, pop, ref, size) ==
    IF fn \in ChoiceCallers THEN EqualCountChoice(pop, ref, size)
    ELSE IF fn = "random_n_gids" THEN RandomNGids(MakeLookup(pop), ref)
    ELSE RandomCategoricalGids(MakeLookup(pop), ref)

\* the exception of a call that cannot draw
ControlError(fn) ==
    IF fn \in ChoiceCallers THEN "ValueError" ELSE "InsufficientPopulation"

CtrlIds == 1..MaxPop

\* populations: distinct ids in any order
Populations == UNION {InjSeqs(CtrlIds, k) : k \in 0..MaxPop}

\* the gids of a reference assembly: sorted, not empty
References == {SortedSeqOf(S) : S \in (SUBSET CtrlIds) \ {{}}}

InitCtrl ==
    /\ IdleBins /\ IdleConn /\ IdleEnt /\ IdleBatch /\ IdleTopo
       /\ IdleProb /\ IdleIsin /\ IdleH5 /\ IdleBluepy
    /\ c_fn \in ChoiceCallers \cup StoreCallers
    /\ c_pop \in Populations
    /\ c_ref \in References
    /\ c_size \in (IF c_fn = "consensus_instantiations" THEN 1..MaxPop
                    ELSE {Len(c_ref)})
    /\ c_ctrl = NoResult
    /\ c_pc = "call"

\* the call draws one of its possible controls, or raises
CtrlDraw ==
    /\ c_pc = "call"
    /\ LET outs == ControlsOf(c_fn, c_pop, c_ref, c_size)
       IN IF outs = {}
          THEN c_ctrl' = [kind |-> ControlError(c_fn)]
          ELSE \E v \in outs : c_ctrl' = [kind |-> "gids", v |-> v]
    /\ c_pc' = "drawn"
    /\ UNCHANGED <<c_fn, c_pop, c_ref, c_size>>
    /\ UNCHANGED notCtrlVars

NextCtrl == CtrlDraw

SpecCtrl == InitCtrl /\ [][NextCtrl]_vars

-----------------------------------------------------------------------------
(* Claims on the control populations *)

NoIdTwice(q) == \A i \in 1..Len(q) : \A j \in 1..Len(q) : i # j => q[i] # q[j]

\* the equal-count controls of a reference
EqualCountCallers == {"get_mtype_indegree", "random_n_gids"}

\* C22: an equal-count random control for a reference set has exactly as many
\* ids as the reference, contains no id twice, and contains only ids of the
\* full population
C22_EqualCountControl ==
    (c_pc = "drawn" /\ c_fn \in EqualCountCallers /\ c_ctrl.kind = "gids") =>
        /\ Len(c_ctrl.v) = Len(c_ref)
        /\ NoIdTwice(c_ctrl.v)
        /\ Range(c_ctrl.v) \subseteq Range(c_pop)

\* a control of two ids drawn by np.random.choice for a reference of two
C22_Witness ==
    /\ c_pc = "drawn" /\ c_fn = "get_mtype_indegree" /\ c_ctrl.kind = "gids"
    /\ Len(c_ref) = 2 /\ Len(c_ctrl.v) = 2 /\ Len(c_pop) = MaxPop

\* number of ids of category c in an id list
CategoryCount(q, c) == Cardinality({i \in 1..Len(q) : MtypeOf(q[i]) = c})

\* the categories of the populations
Categories == {MtypeOf(id) : id \in CtrlIds}

\* some category of the source pool has fewer ids than the reference requires
PoolTooSmall == \E c \in Categories : CategoryCount(c_pop, c) < CategoryCount(c_ref, c)

\* C23: a categorical matched control reproduces the reference's per-category
\* counts exactly with no id drawn twice, or the call fails with
\* InsufficientPopulation when some category of the source pool has fewer ids
\* than required; it never returns a control with different category counts
C23_CategoricalControl ==
    (c_pc = "drawn" /\ c_fn = "random_categorical_gids") =>
        IF PoolTooSmall
        THEN c_ctrl.kind = "InsufficientPopulation"
        ELSE /\ c_ctrl.kind = "gids"
             /\ NoIdTwice(c_ctrl.v)
             /\ Range(c_ctrl.v) \subseteq Range(c_pop)
             /\ \A c \in Categories :
                    CategoryCount(c_ctrl.v, c) = CategoryCount(c_ref, c)

\* a control that spans two categories, other than the reference itself
C23_Witness ==
    /\ c_pc = "drawn" /\ c_fn = "random_categorical_gids" /\ c_ctrl.kind = "gids"
    /\ Cardinality({MtypeOf(id) : id \in Range(c_ctrl.v)}) = 2
    /\ Range(c_ctrl.v) # Range(c_ref)

\* a call that fails because a category cannot be filled
C23_WitnessInsufficient ==
    /\ c_pc = "drawn" /\ c_fn = "random_categorical_gids"
    /\ c_ctrl.kind = "InsufficientPopulation" /\ Len(c_pop) >= Len(c_ref)

\* C29: the equal-count random control is drawn from the full population
\* without removing the reference assembly's members: whenever a control can
\* be drawn and the assembly has a member in the population, a control that
\* shares an id with the assembly is a possible outcome, and a control equal to
\* the assembly is possible when the sizes allow
C29_ControlMayOverlap ==
    (c_pc = "call" /\ c_fn \in ChoiceCallers) =>
        /\ (c_size \in 1..Len(c_pop) /\ Range(c_ref) \cap Range(c_pop) # {}) =>
               ENABLED (CtrlDraw /\ c_ctrl'.kind = "gids"
                           /\ Range(c_ctrl'.v) \cap Range(c_ref) # {})
        /\ (c_size = Len(c_ref) /\ Range(c_ref) \subseteq Range(c_pop)) =>
               ENABLED (CtrlDraw /\ c_ctrl' = [kind |-> "gids", v |-> c_ref])

\* a control drawn for an assembly that is exactly the assembly, with other
\* ids left in the population
C29_Witness ==
    /\ c_pc = "drawn" /\ c_fn \in ChoiceCallers /\ c_ctrl.kind = "gids"
    /\ c_ctrl.v = c_ref /\ Len(c_pop) > Len(c_ref)

-----------------------------------------------------------------------------
(* ConnectivityMatrix.from_bluepy: the adjacency matrix built column by     *)
(* column from the afferent gids of each node, then degree(kind="in")      *)

\* the gids of the circuit: the nodes of the matrix and one more
CircuitIds == 1..(MaxN + 1)

\* the connectomes: sets of connections <<pre gid, post gid>>
Connectomes ==
    {C \in SUBSET (CircuitIds \X CircuitIds) : Cardinality(C) <= MaxSynEdges}

\* sim.circuit.connectome.afferent_gids(gid): the pre-synaptic gids of gid
AfferentGids(conn, gid) == {c[1] : c \in {d \in conn : d[2] = gid}}

\* np.intersect1d(ar1, ar2): the sorted common values
Intersect1d(S, g) == SortedSeqOf(S \cap Range(g))

\* a variant that takes the post-synaptic gids of gid instead
FromBluepyAffEfferent(conn, g, gid) ==
    Lookup(MakeLookup(g),
           Intersect1d({c[2] : c \in {d \in conn : d[1] = gid}}, g)).pos

\* aff = conv[np.intersect1d(sim.circuit.connectome.afferent_gids(gid), gids)]
\* with conv = pandas.Series(np.arange(len(gids)), index=gids)
FromBluepyAff(conn, g, gid) ==
    Lookup(MakeLookup(g), Intersect1d(AfferentGids(conn, gid), g)).pos

InitBluepy ==
    /\ IdleBins /\ IdleEnt /\ IdleBatch /\ IdleProb /\ IdleIsin
       /\ IdleH5 /\ IdleCtrl
    /\ m = [dim |-> 0, nz |-> {}]
    /\ gids \in GidVectors
    /\ lookup = [index |-> <<>>, values |-> <<>>]
    /\ cpc = "new" /\ q_pre = <<>> /\ q_has_post = FALSE /\ q_post = <<>>
    /\ sub = NoResult
    /\ t_op = "none" /\ t_has_pre = FALSE /\ t_kind = "none" /\ t_res = NoResult
    /\ h5 = NoFile
    /\ f_conn \in Connectomes
    /\ f_i = 1 /\ f_indices = <<>> /\ f_indptr = <<0>>
    /\ f_pc = "loop"

\* one pass of the loop over gids: indices.extend(aff),
\* indptr.append(len(indices))
FromBluepyColumn ==
    /\ f_pc = "loop" /\ f_i <= Len(gids)
    /\ LET aff == FromBluepyAff(f_conn, gids, gids[f_i])
       IN /\ f_indices' = f_indices \o aff
          /\ f_indptr' = Append(f_indptr, Len(f_indices) + Len(aff))
    /\ f_i' = f_i + 1
    /\ UNCHANGED <<f_conn, f_pc>>
    /\ UNCHANGED <<connVars, topoVars>>
    /\ UNCHANGED notBluepyVars

\* data = np.ones_like(indices, dtype=bool); adj_mat = sparse.csc_matrix(
\* (data, indices, indptr), shape=(len(gids), len(gids))); cls(adj_mat, gids)
FromBluepyBuild ==
    /\ f_pc = "loop" /\ f_i > Len(gids)
    /\ LET adj == CscMatrix([k \in 1..Len(f_indices) |-> TRUE], f_indices,
                            f_indptr, Len(gids))
       IN /\ adj.kind = "matrix"
          /\ m' = adj.m
    /\ lookup' = MakeLookup(gids)
    /\ cpc' = "built"
    /\ f_pc' = "built"
    /\ UNCHANGED <<gids, q_pre, q_has_post, q_post, sub>>
    /\ UNCHANGED <<f_conn, f_i, f_indices, f_indptr>>
    /\ UNCHANGED topoVars
    /\ UNCHANGED notBluepyVars

\* conn_mat.degree(kind="in") on the object built
BluepyInDegree ==
    /\ f_pc = "built"
    /\ t_op' = "degree" /\ t_kind' = "in" /\ t_has_pre' = FALSE
    /\ t_res' = Degree(m, lookup, FALSE, <<>>, FALSE, <<>>, "in")
    /\ f_pc' = "degree"
    /\ UNCHANGED <<connVars, h5>>
    /\ UNCHANGED <<f_conn, f_i, f_indices, f_indptr>>
    /\ UNCHANGED notBluepyVars

NextBluepy == FromBluepyColumn \/ FromBluepyBuild \/ BluepyInDegree

SpecBluepy == InitBluepy /\ [][NextBluepy]_vars

-----------------------------------------------------------------------------
(* Claims on from_bluepy *)

\* the nodes of gids with a connection onto the node at position p (0-based)
IncomingOf(p) == {i \in 0..(Len(gids) - 1) : <<gids[i + 1], gids[p + 1]>> \in f_conn}

\* C30: in the matrix built by from_bluepy, entry (row i, column j) is set iff
\* gids[i] is an afferent (pre-synaptic) neuron of gids[j] and belongs to
\* gids; rows are sources and columns targets, so the column sums of
\* degree(kind="in") count the incoming edges of each node
C30_FromBluepyOrientation ==
    /\ f_pc \in {"built", "degree"} =>
          /\ m.dim = Len(gids)
          /\ \A i \in 0..(Len(gids) - 1) : \A j \in 0..(Len(gids) - 1) :
                (<<i, j>> \in m.nz) <=> (<<gids[i + 1], gids[j + 1]>> \in f_conn)
    /\ f_pc = "degree" =>
          /\ t_res.kind = "vector"
          /\ Len(t_res.v) = Len(gids)
          /\ \A j \in 1..Len(gids) : t_res.v[j] = Cardinality(IncomingOf(j - 1))

\* a one-way connection between two nodes of gids and an afferent outside
\* gids, with the in-degrees taken
C30_Witness ==
    /\ f_pc = "degree" /\ Len(gids) = 2
    /\ \E i \in 0..1 : \E j \in 0..1 :
          i # j /\ <<i, j>> \in m.nz /\ <<j, i>> \notin m.nz
    /\ \E c \in f_conn : c[1] \notin Range(gids) /\ c[2] \in Range(gids)

=============================================================================
